---- MODULE Spec2Model ----
(***************************************************************************)
(* CenQuery pre-processing pipeline: the label cleaners, the cleaning      *)
(* scripts that build the dimension files (regions, tru, religions,        *)
(* age_groups) and the fact files, and the upload scripts that load them   *)
(* into the destination database.                                          *)
(*                                                                         *)
(* Text is a sequence of one-character strings, so that the regular        *)
(* expressions and string methods of the cleaners are computed character   *)
(* by character.                                                           *)
(***************************************************************************)
EXTENDS Integers, Sequences, FiniteSets, TLC

VARIABLES
    cLabel,     \* canon: the raw label handed to clean_state_name
    cDisp,      \* canon: clean_state_name(cLabel), the display form
    cDisp2,     \* canon: clean_state_name(cDisp)
    cPhase,     \* canon: "in" | "once" | "twice"
    files,      \* the output directories: path -> [exists, rows]
    run,        \* the last cleaning run: its script, input and local values
    db,         \* the destination database: table -> [exists, rows, pk, ...]
    up          \* the upload run: its script, position, statements so far (log),
                \* the cleaning runs done when it started, and the run before it

canonVars == <<cLabel, cDisp, cDisp2, cPhase>>
cleanVars == <<files, run>>
upVars == <<db, up>>
vars == <<cLabel, cDisp, cDisp2, cPhase, files, run, db, up>>

(***************************************************************************)
(* Characters                                                              *)
(***************************************************************************)
Lowers == <<"a","b","c","d","e","f","g","h","i","j","k","l","m",
            "n","o","p","q","r","s","t","u","v","w","x","y","z">>
Uppers == <<"A","B","C","D","E","F","G","H","I","J","K","L","M",
            "N","O","P","Q","R","S","T","U","V","W","X","Y","Z">>
Digits == {"0","1","2","3","4","5","6","7","8","9"}

IsLower(c) == \E i \in DOMAIN Lowers : Lowers[i] = c
IsUpper(c) == \E i \in DOMAIN Uppers : Uppers[i] = c
IsCased(c) == IsLower(c) \/ IsUpper(c)
IsDigit(c) == c \in Digits
\* \s of re, and what str.strip() removes
IsSpace(c) == c \in {" ", "\t"}

\* str.lower() and str.upper() of one character: the cased letters, as tables
LowerOf == [i \in DOMAIN Uppers |-> Lowers[i]]
UpperOf == [i \in DOMAIN Lowers |-> Uppers[i]]
LowerTable == [c \in {Uppers[i] : i \in DOMAIN Uppers} |->
                  LowerOf[CHOOSE i \in DOMAIN Uppers : Uppers[i] = c]]
UpperTable == [c \in {Lowers[i] : i \in DOMAIN Lowers} |->
                  UpperOf[CHOOSE i \in DOMAIN Lowers : Lowers[i] = c]]
ToLower(c) == IF c \in DOMAIN LowerTable THEN LowerTable[c] ELSE c
ToUpper(c) == IF c \in DOMAIN UpperTable THEN UpperTable[c] ELSE c

(***************************************************************************)
(* str methods                                                             *)
(***************************************************************************)
\* str.lower()
Lower(s) == [i \in 1..Len(s) |-> ToLower(s[i])]

\* str.title(): a cased character is upper-cased when the character before
\* it is not cased, and lower-cased otherwise
Title(s) == [i \in 1..Len(s) |->
                IF i > 1 /\ IsCased(s[i-1]) THEN ToLower(s[i]) ELSE ToUpper(s[i])]

\* str.strip()
Strip(s) ==
    LET keep == {i \in 1..Len(s) : ~IsSpace(s[i])}
    IN  IF keep = {} THEN <<>>
        ELSE LET lo == CHOOSE i \in keep : \A j \in keep : i <= j
                 hi == CHOOSE i \in keep : \A j \in keep : j <= i
             IN  SubSeq(s, lo, hi)

\* sub in s
Contains(s, sub) ==
    \E i \in 1..(Len(s) - Len(sub) + 1) : SubSeq(s, i, i + Len(sub) - 1) = sub

\* s.replace('&', 'and')
RECURSIVE ReplaceAmp(_)
ReplaceAmp(s) ==
    IF s = <<>> THEN <<>>
    ELSE (IF Head(s) = "&" THEN <<"a","n","d">> ELSE <<Head(s)>>) \o ReplaceAmp(Tail(s))

(***************************************************************************)
(* clean_state_name (clean_healthcare.py)                                  *)
(***************************************************************************)
StatePrefix == <<"S","t","a","t","e"," ","-"," ">>
Maharastra  == <<"m","a","h","a","r","a","s","t","r","a">>
Maharashtra == <<"m","a","h","a","r","a","s","h","t","r","a">>
Dadra       == <<"d","a","d","r","a">>
Daman       == <<"d","a","m","a","n">>
DadraDaman  == <<"d","a","d","r","a"," ","a","n","d"," ","n","a","g","a","r"," ",
                 "h","a","v","e","l","i"," ","a","n","d"," ","d","a","m","a","n"," ",
                 "a","n","d"," ","d","i","u">>

\* re.sub(r'^State - ', '', name, flags=re.IGNORECASE): one match, at the start
StripStatePrefix(s) ==
    IF Len(s) >= Len(StatePrefix)
       /\ Lower(SubSeq(s, 1, Len(StatePrefix))) = Lower(StatePrefix)
    THEN SubSeq(s, Len(StatePrefix) + 1, Len(s))
    ELSE s

\* a cleaner that leaves the trailing code where it is
KeepTrailingCode(s) == s

\* re.sub(r'\s\(\d+\)$', '', name): one match, at the end
StripTrailingCode(s) ==
    LET n == Len(s)
        opens == {k \in 2..(n - 2) :
                    /\ s[k] = "("
                    /\ IsSpace(s[k-1])
                    /\ \A j \in (k+1)..(n-1) : IsDigit(s[j])}
    IN  IF n >= 4 /\ s[n] = ")" /\ opens # {}
        THEN SubSeq(s, 1, (CHOOSE k \in opens : TRUE) - 2)
        ELSE s

clean_state_name(name) ==
    LET stripped == Strip(name)
        noPrefix == StripStatePrefix(stripped)
        noCode   == StripTrailingCode(noPrefix)
        lowered  == ReplaceAmp(Lower(noCode))
    IN  IF Contains(lowered, Maharastra) THEN Maharashtra
        ELSE IF Contains(lowered, Dadra) /\ Contains(lowered, Daman) THEN DadraDaman
        ELSE Title(lowered)

\* the key of the lookup map: clean_state_name(...).lower()
NormName(display) == Lower(display)

(***************************************************************************)
(* Python values handed to the cleaners, and clean_column_name              *)
(* (clean_population.py)                                                   *)
(***************************************************************************)
\* None, float('nan'), a str or an int: kind is "None", "nan", "str" or "int"
PyValue(kind, text, num) == [kind |-> kind, text |-> text, num |-> num]

\* bool(v), the test of "if not name"
Truthy(v) ==
    CASE v.kind = "None" -> FALSE
      [] v.kind = "nan"  -> TRUE
      [] v.kind = "str"  -> v.text # <<>>
      [] v.kind = "int"  -> v.num # 0

\* str(v); the ints are one decimal digit
PyStr(v) ==
    CASE v.kind = "None" -> <<"N","o","n","e">>
      [] v.kind = "nan"  -> <<"n","a","n">>
      [] v.kind = "str"  -> v.text
      [] v.kind = "int"  -> << <<"0","1","2","3","4","5","6","7","8","9">>[v.num + 1] >>

KeyLen == 60

clean_column_name(name) ==
    IF ~Truthy(name) THEN <<"c","o","l">>
    ELSE LET s == Strip(Lower(PyStr(name)))
             \* re.sub(r'\s+', '_', s): one underscore for a run of whitespace
             FirstOfRun(i) == ~IsSpace(s[i]) \/ i = 1 \/ ~IsSpace(s[i-1])
             idx == SelectSeq([i \in 1..Len(s) |-> i], FirstOfRun)
             underscored == [k \in 1..Len(idx) |->
                                IF IsSpace(s[idx[k]]) THEN "_" ELSE s[idx[k]]]
             \* re.sub(r'[^a-z0-9_]', '', s)
             KeyChar(c) == IsLower(c) \/ IsDigit(c) \/ c = "_"
             key == SelectSeq(underscored, KeyChar)
         IN  SubSeq(key, 1, IF Len(key) < KeyLen THEN Len(key) ELSE KeyLen)

\* lambda x: clean_state_name(str(x)), as process_data applies it to a column
CleanStateOfCell(x) == clean_state_name(PyStr(x))

(***************************************************************************)
(* pandas cells and csv files                                              *)
(*                                                                         *)
(* A numeric cell is <<n>>, or <<>> for NaN (a missing value).  A file is  *)
(* [exists, rows]; a row is a record of the columns the scripts use.       *)
(***************************************************************************)
NaN == <<>>
Num(n) == <<n>>
IsNaN(c) == c = NaN

\* Series.max() skips NaN; NaN + 1 is NaN
MaxCell(cells) ==
    LET present == {c[1] : c \in {x \in cells : ~IsNaN(x)}}
    IN  IF present = {} THEN NaN
        ELSE Num(CHOOSE m \in present : \A k \in present : k <= m)
PlusOne(c) == IF IsNaN(c) THEN NaN ELSE Num(c[1] + 1)

\* the texts read_csv takes for a missing value (its default na_values)
NaTexts == { <<>>, <<"N","A">>, <<"N","a","N">>, <<"n","a","n">>,
             <<"N","o","n","e">>, <<"n","u","l","l">>, <<"N","U","L","L">> }
\* str(x) of a text cell that went through to_csv and read_csv
StrOfCsvText(t) == IF t \in NaTexts THEN <<"n","a","n">> ELSE t

HC_REGIONS_FILE  == "output_normalized/regions.csv"
HC_TRU_FILE      == "output_normalized/tru.csv"
HC_STATS_FILE    == "output_normalized/healthcare_stats.csv"
REL_RELIGIONS_FILE == "output_normalized/religions.csv"
REL_TRU_FILE     == "output_normalized/tru.csv"
REL_STATS_FILE   == "output_normalized/religion_stats.csv"
PCA_TRU_FILE     == "output_normalized_education/tru.csv"
PCA_STATS_FILE   == "output_normalized_education/pca_stats.csv"
OCC_TRU_FILE     == "output_normalized_occupation/tru.csv"
OCC_REGIONS_FILE == "output_normalized_occupation/regions.csv"
OCC_AGE_GROUPS_FILE == "output_normalized_occupation/age_groups.csv"
OCC_STATS_FILE   == "output_normalized_occupation/occupation_stats.csv"
POP_STATS_FILE   == "output_normalized/population_stats.csv"
POPN_REGIONS_FILE == "output_normalized_population/regions.csv"
POPN_STATS_FILE  == "output_normalized_population/population_stats.csv"

Paths == { HC_REGIONS_FILE, HC_TRU_FILE, HC_STATS_FILE, REL_RELIGIONS_FILE,
           REL_STATS_FILE, PCA_TRU_FILE, PCA_STATS_FILE, OCC_TRU_FILE, OCC_REGIONS_FILE,
           OCC_AGE_GROUPS_FILE, OCC_STATS_FILE, POP_STATS_FILE, POPN_REGIONS_FILE,
           POPN_STATS_FILE }

Absent == [exists |-> FALSE, rows |-> <<>>]
File(rows) == [exists |-> TRUE, rows |-> rows]
NoFiles == [p \in Paths |-> Absent]

\* Series.unique(): the distinct values in order of first occurrence
\* the distinct values in order of last occurrence
UniqueLast(s) ==
    LET last == {i \in DOMAIN s : \A j \in DOMAIN s : s[j] = s[i] => j <= i}
        nth(k) == CHOOSE i \in last : Cardinality({j \in last : j < i}) = k - 1
    IN  [k \in 1..Cardinality(last) |-> s[nth(k)]]

RECURSIVE Unique(_)
Unique(s) ==
    IF s = <<>> THEN <<>>
    ELSE LET init == Unique(SubSeq(s, 1, Len(s) - 1))
             last == s[Len(s)]
         IN  IF \E i \in DOMAIN init : init[i] = last THEN init ELSE Append(init, last)

Column(rows, col) == [i \in DOMAIN rows |-> rows[i][col]]
Range(s) == {s[i] : i \in DOMAIN s}

\* pd.DataFrame({'id': range(1, len(unique) + 1), <col>: unique})
LookupFrame(unique, col) ==
    [i \in DOMAIN unique |-> [id |-> i] @@ (col :> unique[i])]

\* dict(zip(frame[col], frame['id'])): a later row replaces an earlier one
\* with the same key
ZipDict(keys, vals) ==
    [k \in Range(keys) |->
        LET is == {i \in DOMAIN keys : keys[i] = k}
        IN  vals[CHOOSE i \in is : \A j \in is : j <= i]]

\* Series.map(dict): NaN for a value that is no key of the dict
MapCell(dict, v) == IF v \in DOMAIN dict THEN dict[v] ELSE NaN

(***************************************************************************)
(* clean_healthcare.process_data                                           *)
(***************************************************************************)
\* a load that starts the ids at 1 whatever the file holds
LoadRegionsFromOne(fs) ==
    [rows |-> IF fs[HC_REGIONS_FILE].exists THEN fs[HC_REGIONS_FILE].rows ELSE <<>>,
     next_id |-> Num(1)]

\* step 2, load: the rows of regions.csv and next_id
LoadRegions(fs) ==
    IF fs[HC_REGIONS_FILE].exists
    THEN [rows |-> fs[HC_REGIONS_FILE].rows,
          next_id |-> PlusOne(MaxCell(Range(Column(fs[HC_REGIONS_FILE].rows, "state"))))]
    ELSE [rows |-> <<>>, next_id |-> Num(1)]

\* regions_df['norm_name'] and name_to_id = dict(zip(norm_name, state))
RegionNormName(row) == NormName(clean_state_name(StrOfCsvText(row.area_name)))
RegionState(row) == row.state
LoadNameToId(rows) ==
    ZipDict([i \in DOMAIN rows |-> RegionNormName(rows[i])],
            [i \in DOMAIN rows |-> RegionState(rows[i])])

\* the loop over df['clean_state'].unique(): [name_to_id, next_id, new_regions]
RECURSIVE Reconcile(_, _)
Reconcile(st, names) ==
    IF names = <<>> THEN st
    ELSE LET state_name == Head(names)
             norm_name  == NormName(state_name)
         IN  IF norm_name \notin DOMAIN st.name_to_id
             THEN Reconcile(
                    [name_to_id  |-> st.name_to_id @@ (norm_name :> st.next_id),
                     next_id     |-> PlusOne(st.next_id),
                     new_regions |-> Append(st.new_regions,
                                        [state |-> st.next_id, area_name |-> state_name])],
                    Tail(names))
             ELSE Reconcile(st, Tail(names))

\* step 3: the tru frame, read when tru.csv exists and else built from df['area']
TruFrame(fs, path, areas) ==
    IF fs[path].exists THEN fs[path].rows ELSE LookupFrame(Unique(areas), "name")
RowId(row) == Num(row.id)
Ids(frame) == [i \in DOMAIN frame |-> RowId(frame[i])]
TruMap(tru_df) == ZipDict(Column(tru_df, "name"), Ids(tru_df))

\* a cell of a text column as a Python value: a str, or NaN when it is missing
CellValue(c) == IF IsNaN(c) THEN PyValue("nan", <<>>, 0) ELSE PyValue("str", c, 0)

\* the whole run on the dataframe df (rows of states_uts, area): the files
\* after it and its local values
ProcessHealthcare(fs, df) ==
    LET loaded      == LoadRegions(fs)
        clean_state == [i \in DOMAIN df |-> CleanStateOfCell(CellValue(df[i].states_uts))]
        merged      == Reconcile([name_to_id  |-> LoadNameToId(loaded.rows),
                                  next_id     |-> loaded.next_id,
                                  new_regions |-> <<>>],
                                 Unique(clean_state))
        regionsOut  == IF merged.new_regions # <<>>
                       THEN File(loaded.rows \o merged.new_regions)
                       ELSE fs[HC_REGIONS_FILE]
        state       == [i \in DOMAIN df |->
                            MapCell(merged.name_to_id, NormName(clean_state[i]))]
        tru_df      == TruFrame(fs, HC_TRU_FILE, Column(df, "area"))
        tru_id      == [i \in DOMAIN df |-> MapCell(TruMap(tru_df), df[i].area)]
        stats       == [i \in DOMAIN df |-> [state |-> state[i], tru_id |-> tru_id[i]]]
    IN  [files |-> [fs EXCEPT ![HC_REGIONS_FILE] = regionsOut,
                              ![HC_TRU_FILE]     = File(tru_df),
                              ![HC_STATS_FILE]   = File(stats)],
         new_regions |-> merged.new_regions,
         name_to_id  |-> merged.name_to_id,
         state       |-> state,
         tru_id      |-> tru_id]

(***************************************************************************)
(* clean_pca.process_pca_data, clean_religion.process_religion_data,       *)
(* clean_occupation.process_occupation_data                                *)
(***************************************************************************)
\* df['state'].fillna(0).astype(int)
FillNa0(c) == IF IsNaN(c) THEN Num(0) ELSE c

ProcessPca(fs, df) ==
    LET tru_df == LookupFrame(Unique(Column(df, "tru")), "name")
        tru_id == [i \in DOMAIN df |-> MapCell(TruMap(tru_df), df[i].tru)]
        stats  == [i \in DOMAIN df |->
                      [state |-> FillNa0(df[i].state), tru_id |-> tru_id[i]]]
    IN  [files |-> [fs EXCEPT ![PCA_TRU_FILE]   = File(tru_df),
                              ![PCA_STATS_FILE] = File(stats)],
         state  |-> Column(stats, "state"),
         tru_id |-> tru_id]

RelMap(rel_df) == ZipDict(Column(rel_df, "religion_name"), Ids(rel_df))

ProcessReligion(fs, df) ==
    LET tru_df == TruFrame(fs, REL_TRU_FILE, Column(df, "tru"))
        tru_id == [i \in DOMAIN df |-> MapCell(TruMap(tru_df), df[i].tru)]
        rel_df == LookupFrame(Unique(Column(df, "religion")), "religion_name")
        rel_id == [i \in DOMAIN df |-> MapCell(RelMap(rel_df), df[i].religion)]
        stats  == [i \in DOMAIN df |->
                      [state |-> FillNa0(df[i].state), religion_id |-> rel_id[i],
                       tru_id |-> tru_id[i]]]
    IN  [files |-> [fs EXCEPT ![REL_TRU_FILE]       = File(tru_df),
                              ![REL_RELIGIONS_FILE] = File(rel_df),
                              ![REL_STATS_FILE]     = File(stats)],
         state  |-> Column(stats, "state"),
         tru_id |-> tru_id]

\* df['age_group'].replace('Total', 'All Ages')
ReplaceTotal(a) == IF a = "Total" THEN "All Ages" ELSE a

\* text.replace('State - ', ''): every occurrence, case-sensitive
RECURSIVE RemoveAll(_, _)
RemoveAll(s, sub) ==
    IF Len(s) < Len(sub) THEN s
    ELSE IF SubSeq(s, 1, Len(sub)) = sub
         THEN RemoveAll(SubSeq(s, Len(sub) + 1, Len(s)), sub)
         ELSE <<Head(s)>> \o RemoveAll(Tail(s), sub)

\* the length of the match of \s*\(\d+\) at the start of s, 0 when there is none
CodeMatchLen(s) ==
    LET n  == Len(s)
        w  == Cardinality({i \in 1..n : \A j \in 1..i : IsSpace(s[j])})
        d  == Cardinality({i \in (w+2)..n : \A j \in (w+2)..i : IsDigit(s[j])})
    IN  IF w + 1 <= n /\ s[w+1] = "(" /\ d >= 1 /\ w + d + 2 <= n /\ s[w+d+2] = ")"
        THEN w + d + 2 ELSE 0

\* re.sub(r'\s*\(\d+\)', '', text): every occurrence
RECURSIVE RemoveCodes(_)
RemoveCodes(s) ==
    IF s = <<>> THEN <<>>
    ELSE IF CodeMatchLen(s) > 0
         THEN RemoveCodes(SubSeq(s, CodeMatchLen(s) + 1, Len(s)))
         ELSE <<Head(s)>> \o RemoveCodes(Tail(s))

clean_text(text) == Strip(RemoveCodes(RemoveAll(text, StatePrefix)))

ProcessOccupation(fs, raw) ==
    LET kept   == SelectSeq(raw, LAMBDA r : ~IsNaN(r.state_code))
        df     == [i \in DOMAIN kept |->
                      [kept[i] EXCEPT !.area_name = clean_text(kept[i].area_name),
                                      !.age_group = ReplaceTotal(kept[i].age_group)]]
        tru_df == LookupFrame(Unique(Column(df, "tru")), "name")
        tru_id == [i \in DOMAIN df |-> MapCell(TruMap(tru_df), df[i].tru)]
        regions_df == Unique([i \in DOMAIN df |->
                                [state_code |-> df[i].state_code,
                                 district_code |-> df[i].district_code,
                                 area_name |-> df[i].area_name]])
        age_df == LookupFrame(Unique(Column(df, "age_group")), "name")
        age_id == [i \in DOMAIN df |-> MapCell(TruMap(age_df), df[i].age_group)]
        stats  == [i \in DOMAIN df |->
                      [state_code |-> df[i].state_code, tru_id |-> tru_id[i],
                       age_group_id |-> age_id[i]]]
    IN  [files |-> [fs EXCEPT ![OCC_TRU_FILE]        = File(tru_df),
                              ![OCC_REGIONS_FILE]    = File(regions_df),
                              ![OCC_AGE_GROUPS_FILE] = File(age_df),
                              ![OCC_STATS_FILE]      = File(stats)],
         state  |-> Column(stats, "state_code"),
         tru_id |-> tru_id]

(***************************************************************************)
(* clean_population.normalize_data                                         *)
(***************************************************************************)
\* sort_values(by=['state']): rows in ascending state, ties in input order
RECURSIVE SortByState(_)
SortByState(rows) ==
    IF rows = <<>> THEN <<>>
    ELSE LET rest == SortByState(Tail(rows))
             k    == Cardinality({i \in DOMAIN rest : rest[i].state[1] < Head(rows).state[1]})
         IN  SubSeq(rest, 1, k) \o <<Head(rows)>> \o SubSeq(rest, k + 1, Len(rest))

\* the regions are the distinct (state, area_name) pairs of the input, the
\* labels as read; the stats keep the state code
normalize_data(fs, df) ==
    LET regions == SortByState(Unique([i \in DOMAIN df |->
                       [state |-> df[i].state, area_name |-> df[i].area_name]]))
        stats   == [i \in DOMAIN df |-> [state |-> df[i].state]]
    IN  [files |-> [fs EXCEPT ![POPN_REGIONS_FILE] = File(regions),
                              ![POPN_STATS_FILE]   = File(stats)],
         state  |-> Column(stats, "state"),
         tru_id |-> <<>>]

(***************************************************************************)
(* The destination database                                                *)
(*                                                                         *)
(* A table is [exists, rows, pk, rls, policy, fks]; fks is the set of the  *)
(* foreign keys declared on it, each [name, col, ref].                     *)
(***************************************************************************)
DimTables  == {"regions", "tru", "religions"}
FactTables == {"population_stats", "healthcare_stats", "pca_stats", "religion_stats"}
TableNames == DimTables \cup FactTables

NoTable == [exists |-> FALSE, rows |-> <<>>, pk |-> FALSE, rls |-> FALSE,
            policy |-> FALSE, fks |-> {}]
EmptyDb == [t \in TableNames |-> NoTable]

\* the primary-key cell of a row of a dimension table: regions(state), tru(id),
\* religions(id)
PkCell(t, row) == IF t = "regions" THEN row.state ELSE Num(row.id)
PkCells(d, t) == {PkCell(t, d[t].rows[i]) : i \in DOMAIN d[t].rows}

\* some table declares a foreign key that references t
Referenced(d, t) == \E u \in TableNames : \E fk \in d[u].fks : fk.ref = t

\* DataFrame.to_sql(t, if_exists='replace'): DROP TABLE t, which the database
\* refuses while a foreign key references t, then CREATE TABLE and the insert
ToSqlReplaceOk(d, t) == ~Referenced(d, t)
\* a replace that puts the rows in place and keeps what was declared on the table
ToSqlReplaceRows(d, t, rows) ==
    [d EXCEPT ![t].exists = TRUE, ![t].rows = rows]

ToSqlReplace(d, t, rows) ==
    [d EXCEPT ![t] = [NoTable EXCEPT !.exists = TRUE, !.rows = rows]]

\* DataFrame.to_sql(t, if_exists='append'): the insert, refused when it breaks
\* the primary key of t; the table is created when it is missing
ToSqlAppendOk(d, t, rows) ==
    (d[t].exists /\ d[t].pk) =>
        /\ \A i \in DOMAIN rows :
              ~IsNaN(PkCell(t, rows[i])) /\ PkCell(t, rows[i]) \notin PkCells(d, t)
        /\ \A i, j \in DOMAIN rows : PkCell(t, rows[i]) = PkCell(t, rows[j]) => i = j
ToSqlAppend(d, t, rows) ==
    IF d[t].exists THEN [d EXCEPT ![t].rows = @ \o rows]
    ELSE ToSqlReplace(d, t, rows)

\* ALTER TABLE t ADD PRIMARY KEY (col)
AddPrimaryKeyOk(d, t) ==
    /\ d[t].exists /\ ~d[t].pk
    /\ \A i \in DOMAIN d[t].rows : ~IsNaN(PkCell(t, d[t].rows[i]))
    /\ \A i, j \in DOMAIN d[t].rows :
          PkCell(t, d[t].rows[i]) = PkCell(t, d[t].rows[j]) => i = j
AddPrimaryKey(d, t) == [d EXCEPT ![t].pk = TRUE]

\* ALTER TABLE t ADD CONSTRAINT name FOREIGN KEY (col) REFERENCES ref(key):
\* a NULL in col references nothing and is not checked
AddForeignKeyOk(d, t, name, col, ref) ==
    /\ d[t].exists /\ d[ref].exists /\ d[ref].pk
    /\ \A fk \in d[t].fks : fk.name # name
    /\ \A i \in DOMAIN d[t].rows :
          IsNaN(d[t].rows[i][col]) \/ d[t].rows[i][col] \in PkCells(d, ref)
AddForeignKey(d, t, name, col, ref) ==
    [d EXCEPT ![t].fks = @ \cup {[name |-> name, col |-> col, ref |-> ref]}]

(***************************************************************************)
(* Running statements.  st is the state of a function call: the database,  *)
(* the statements attempted so far in this run (log), whether an exception *)
(* is propagating (raised), the number of statements the call attempted    *)
(* (n) and the call's return value (ret).  The failAt-th statement of a    *)
(* call is rejected for a reason outside the model (a lost connection, a   *)
(* permission); 0 rejects none.  A log entry is [op, table, ok, ext]: ext  *)
(* marks a statement the database would have accepted.                     *)
(***************************************************************************)
Call(d, log) == [db |-> d, log |-> log, raised |-> FALSE, n |-> 0, ret |-> TRUE]

Attempt(st, failAt, op, table, okCond, newdb) ==
    IF st.raised THEN st
    ELSE LET ok == okCond /\ st.n + 1 # failAt
         IN  [st EXCEPT !.db = IF ok THEN newdb ELSE st.db,
                        !.log = Append(st.log, [op |-> op, table |-> table, ok |-> ok,
                                                ext |-> okCond /\ ~ok]),
                        !.raised = ~ok,
                        !.n = st.n + 1]

\* a file the function needs is missing: it prints the error
MissingFile(st, table) ==
    [st EXCEPT !.log = Append(st.log, [op |-> "file", table |-> table, ok |-> FALSE,
                                       ext |-> FALSE])]

\* a block whose statements stay in effect when a later one fails
CommitEach(before, after) == after

\* with engine.begin() as conn: ... : an exception rolls the block back
Commit(before, after) == IF after.raised THEN [after EXCEPT !.db = before.db] ELSE after

\* except Exception as e: print(...)
Swallow(st) == [st EXCEPT !.raised = FALSE]
Return(st, value) == [st EXCEPT !.ret = value]

\* enable_rls(table_name, engine): three statements in one transaction, the
\* exception printed and dropped
enable_rls(st, failAt, t) ==
    IF st.raised THEN st
    ELSE LET s1 == Attempt(st, failAt, "rls", t, st.db[t].exists,
                           [st.db EXCEPT ![t].rls = TRUE])
             s2 == Attempt(s1, failAt, "drop_policy", t, s1.db[t].exists,
                           [s1.db EXCEPT ![t].policy = FALSE])
             s3 == Attempt(s2, failAt, "create_policy", t,
                           s2.db[t].exists /\ ~s2.db[t].policy,
                           [s2.db EXCEPT ![t].policy = TRUE])
         IN  Swallow(Commit(st, s3))

\* the create branch shared by the dimension loads: to_sql(replace), ADD
\* PRIMARY KEY, enable_rls
CreateDimension(st, failAt, t, df) ==
    LET s1 == Attempt(st, failAt, "replace", t, ToSqlReplaceOk(st.db, t),
                      ToSqlReplace(st.db, t, df))
        s2 == Attempt(s1, failAt, "pk", t, AddPrimaryKeyOk(s1.db, t),
                      AddPrimaryKey(s1.db, t))
    IN  enable_rls(s2, failAt, t)

\* the append branch of upload_healthcare: read the ids the table holds and
\* append the rows of the file whose id is not among them
AppendNewRows(st, failAt, t, df) ==
    LET s1 == Attempt(st, failAt, "select", t, TRUE, st.db)
        new_rows == SelectSeq(df, LAMBDA r : PkCell(t, r) \notin PkCells(st.db, t))
    IN  IF new_rows # <<>>
        THEN Attempt(s1, failAt, "append", t, ToSqlAppendOk(s1.db, t, new_rows),
                     ToSqlAppend(s1.db, t, new_rows))
        ELSE s1

(***************************************************************************)
(* The fact load shared by the upload scripts: the chunks of the stats     *)
(* file, the first with if_exists='replace' and the others with 'append',  *)
(* the foreign keys in one transaction, enable_rls; an exception ends the  *)
(* load where it is and is printed.                                        *)
(***************************************************************************)
ChunkSize == 1      \* rows of a chunk (chunksize=2000 and 5000 in the scripts)

\* a reader that yields no chunk for a file without rows
RECURSIVE ChunksOfRows(_)
ChunksOfRows(rows) ==
    IF rows = <<>> THEN <<>>
    ELSE IF Len(rows) <= ChunkSize THEN <<rows>>
    ELSE <<SubSeq(rows, 1, ChunkSize)>> \o ChunksOfRows(SubSeq(rows, ChunkSize + 1, Len(rows)))

\* the chunks read_csv(..., chunksize=) yields: one empty frame for a file
\* with a header and no rows
RECURSIVE Chunks(_)
Chunks(rows) ==
    IF Len(rows) <= ChunkSize THEN <<rows>>
    ELSE <<SubSeq(rows, 1, ChunkSize)>> \o Chunks(SubSeq(rows, ChunkSize + 1, Len(rows)))

RECURSIVE UploadChunks(_, _, _, _, _)
UploadChunks(st, failAt, t, chunks, first_chunk) ==
    IF chunks = <<>> THEN st
    ELSE LET s1 == IF first_chunk
                   THEN Attempt(st, failAt, "replace", t, ToSqlReplaceOk(st.db, t),
                                ToSqlReplace(st.db, t, Head(chunks)))
                   ELSE Attempt(st, failAt, "append", t,
                                ToSqlAppendOk(st.db, t, Head(chunks)),
                                ToSqlAppend(st.db, t, Head(chunks)))
         IN  UploadChunks(s1, failAt, t, Tail(chunks), FALSE)

RECURSIVE LinkForeignKeys(_, _, _, _)
LinkForeignKeys(st, failAt, t, fks) ==
    IF fks = <<>> THEN st
    ELSE LET fk == Head(fks)
             s1 == Attempt(st, failAt, "fk", t,
                           AddForeignKeyOk(st.db, t, fk.name, fk.col, fk.ref),
                           AddForeignKey(st.db, t, fk.name, fk.col, fk.ref))
         IN  LinkForeignKeys(s1, failAt, t, Tail(fks))

\* a fact load that secures the table before it links the foreign keys
LoadFactsPolicyFirst(st, failAt, t, chunks, fks) ==
    LET s1 == UploadChunks(st, failAt, t, chunks, TRUE)
        s2 == enable_rls(s1, failAt, t)
        s3 == Commit(s2, LinkForeignKeys(s2, failAt, t, fks))
    IN  Return(Swallow(s3), ~s3.raised)

LoadFacts(st, failAt, t, chunks, fks) ==
    LET s1 == UploadChunks(st, failAt, t, chunks, TRUE)
        s2 == Commit(s1, LinkForeignKeys(s1, failAt, t, fks))
        s3 == enable_rls(s2, failAt, t)
    IN  Return(Swallow(s3), ~s3.raised)

Fk(name, col, ref) == [name |-> name, col |-> col, ref |-> ref]

(***************************************************************************)
(* upload_healthcare.py                                                    *)
(***************************************************************************)
\* update_regions and upload_tru: create the table when to_regclass finds
\* none, append the new ids otherwise
MergeDimension(st, failAt, t, df) ==
    LET s1 == Attempt(st, failAt, "select", t, TRUE, st.db)
    IN  IF s1.raised THEN s1
        ELSE IF ~s1.db[t].exists THEN CreateDimension(s1, failAt, t, df)
        ELSE AppendNewRows(s1, failAt, t, df)

update_regions(st, fs, failAt) ==
    IF ~fs[HC_REGIONS_FILE].exists THEN MissingFile(st, "regions")
    ELSE Swallow(MergeDimension(st, failAt, "regions", fs[HC_REGIONS_FILE].rows))

hc_upload_tru(st, fs, failAt) ==
    IF ~fs[HC_TRU_FILE].exists THEN Return(MissingFile(st, "tru"), FALSE)
    ELSE LET s1 == MergeDimension(st, failAt, "tru", fs[HC_TRU_FILE].rows)
         IN  Return(Swallow(s1), ~s1.raised)

hc_upload_stats(st, fs, failAt) ==
    IF ~fs[HC_STATS_FILE].exists THEN Return(MissingFile(st, "healthcare_stats"), FALSE)
    ELSE LoadFacts(st, failAt, "healthcare_stats", Chunks(fs[HC_STATS_FILE].rows),
                   <<Fk("fk_regions_health", "state", "regions"),
                     Fk("fk_tru_health", "tru_id", "tru")>>)

(***************************************************************************)
(* upload_pca.py                                                           *)
(***************************************************************************)
\* read_csv is outside the try: a missing file raises into the main block
pca_upload_tru(st, fs, failAt) ==
    IF ~fs[PCA_TRU_FILE].exists THEN Return(MissingFile(st, "tru"), FALSE)
    ELSE LET s1 == CreateDimension(st, failAt, "tru", fs[PCA_TRU_FILE].rows)
         IN  Return(Swallow(s1), ~s1.raised)

upload_pca(st, fs, failAt) ==
    IF ~fs[PCA_STATS_FILE].exists THEN Return(MissingFile(st, "pca_stats"), FALSE)
    ELSE LoadFacts(st, failAt, "pca_stats", Chunks(fs[PCA_STATS_FILE].rows),
                   <<Fk("fk_regions_pca", "state", "regions"),
                     Fk("fk_tru_pca", "tru_id", "tru")>>)

(***************************************************************************)
(* upload_religion.py                                                      *)
(***************************************************************************)
\* both lookups are uploaded with if_exists='replace'; each has its own try
\* and the function returns nothing
upload_lookups(st, fs, failAt) ==
    LET s1 == IF fs[REL_RELIGIONS_FILE].exists
              THEN Swallow(CreateDimension(st, failAt, "religions",
                                           fs[REL_RELIGIONS_FILE].rows))
              ELSE st
    IN  IF fs[REL_TRU_FILE].exists
        THEN Swallow(CreateDimension(s1, failAt, "tru", fs[REL_TRU_FILE].rows))
        ELSE s1

rel_upload_stats(st, fs, failAt) ==
    IF ~fs[REL_STATS_FILE].exists THEN Return(MissingFile(st, "religion_stats"), FALSE)
    ELSE LoadFacts(st, failAt, "religion_stats", Chunks(fs[REL_STATS_FILE].rows),
                   <<Fk("fk_regions_rel", "state", "regions"),
                     Fk("fk_religions_lookup", "religion_id", "religions"),
                     Fk("fk_tru_rel", "tru_id", "tru")>>)

(***************************************************************************)
(* upload_population_normalized.py                                         *)
(***************************************************************************)
upload_regions(st, fs, failAt) ==
    IF ~fs[HC_REGIONS_FILE].exists THEN Return(MissingFile(st, "regions"), FALSE)
    ELSE LET s1 == CreateDimension(st, failAt, "regions", fs[HC_REGIONS_FILE].rows)
         IN  Return(Swallow(s1), ~s1.raised)

\* one to_sql call for the whole file
pop_upload_stats(st, fs, failAt) ==
    IF ~fs[POP_STATS_FILE].exists THEN Return(MissingFile(st, "population_stats"), FALSE)
    ELSE LoadFacts(st, failAt, "population_stats", <<fs[POP_STATS_FILE].rows>>,
                   <<Fk("fk_regions", "state", "regions")>>)

\* no upload script has run
NoUpload == [script |-> "none", pc |-> "idle", log |-> <<>>, seq |-> 0,
             cleanSeq |-> 0, prev |-> [script |-> "none", pc |-> "idle", cleanSeq |-> 0]]

(***************************************************************************)
(* The last cleaning run                                                   *)
(***************************************************************************)
NoRun == [script |-> "none", seq |-> 0, status |-> "none", df |-> <<>>,
          state |-> <<>>, tru_id |-> <<>>, new_regions |-> <<>>, name_to_id |-> <<>>]

(***************************************************************************)
(* Canonicalization runs: clean_state_name applied to a raw label, and     *)
(* again to its own result (what process_data does when it reloads the     *)
(* area_name it saved).                                                    *)
(***************************************************************************)
MaxPrefix == 2      \* "State - " repeated at most this often in an input label
MaxCodes  == 2      \* " (dd)" repeated at most this often in an input label

Code28 == <<" ","(","2","8",")">>

BaseNames == {
    <<>>,
    <<"G","o","a">>,
    <<"g","o","a">>,
    <<" ","G","o","a"," ">>,
    <<"n","a","n">>,
    <<"A","N","D","H","R","A"," ","P","R","A","D","E","S","H">>,
    <<"J","a","m","m","u"," ","&"," ","K","a","s","h","m","i","r">>,
    <<"M","a","h","a","r","a","s","t","r","a">>,
    <<"D","a","d","r","a"," ","&"," ","D","a","m","a","n">> }

RECURSIVE Repeat(_, _)
Repeat(s, n) == IF n = 0 THEN <<>> ELSE s \o Repeat(s, n - 1)

CanonInputs ==
    { Repeat(pre, p) \o b \o Repeat(Code28, c) :
        pre \in {StatePrefix, Lower(StatePrefix)},
        p \in 0..MaxPrefix, b \in BaseNames, c \in 0..MaxCodes }

CanonInit ==
    /\ cLabel \in CanonInputs
    /\ cDisp = <<>>
    /\ cDisp2 = <<>>
    /\ cPhase = "in"
    /\ files = NoFiles
    /\ run = NoRun
    /\ db = EmptyDb /\ up = NoUpload

\* df['clean_state'] = df['states_uts'].apply(lambda x: clean_state_name(str(x)))
CleanOnce ==
    /\ cPhase = "in"
    /\ cDisp' = clean_state_name(cLabel)
    /\ cPhase' = "once"
    /\ UNCHANGED <<cLabel, cDisp2, files, run, upVars>>

\* regions_df['area_name'].apply(lambda x: clean_state_name(str(x)).lower())
CleanAgain ==
    /\ cPhase = "once"
    /\ cDisp2' = clean_state_name(cDisp)
    /\ cPhase' = "twice"
    /\ UNCHANGED <<cLabel, cDisp, files, run, upVars>>

CanonNext == CleanOnce \/ CleanAgain

SpecCanon == CanonInit /\ [][CanonNext]_vars

\* C10: canonicalization idempotence for region labels: the key of the
\* display form cleaned again equals the key of the display form
C10_Idempotent ==
    cPhase = "twice" => NormName(cDisp2) = NormName(cDisp)



(***************************************************************************)
(* Cleaning runs: the four cleaning scripts run one after another, each on *)
(* an input dataset, against the output directories the earlier runs left. *)
(***************************************************************************)
MaxRows == 2        \* rows of an input dataset
MaxRuns == 2        \* cleaning runs in a behaviour

Goa            == <<"G","o","a">>
AndhraPradesh  == <<"A","n","d","h","r","a"," ","P","r","a","d","e","s","h">>

\* the states_uts column of Healthcare.xls
HealthLabels ==
    { Goa, Repeat(StatePrefix, MaxPrefix) \o Goa, StatePrefix \o AndhraPradesh \o Code28 }
\* the area / tru column
AreaLabels == {"Total", "Rural", "Semi-Urban"}
TruLabels  == {"Total", "Rural", "Urban"}

SeqsUpTo(S, n) == UNION { [1..k -> S] : k \in 1..n }

HealthInputs == SeqsUpTo([states_uts : HealthLabels, area : AreaLabels], MaxRows)
PcaInputs    == SeqsUpTo([state : {Num(1), NaN}, tru : TruLabels], MaxRows)
ReligionInputs ==
    SeqsUpTo([state : {Num(1)}, tru : TruLabels, religion : {"Hindu", "Muslim"}], MaxRows)
OccupationInputs ==
    SeqsUpTo([state_code : {Num(1), NaN}, district_code : {Num(0)},
              area_name : {StatePrefix \o Goa \o Code28},
              tru : {"Total", "Rural"}, age_group : {"Total", "0-14"}], MaxRows)

PopulationInputs ==
    SeqsUpTo([state : {Num(28), Num(30)},
              area_name : {AndhraPradesh, StatePrefix \o AndhraPradesh \o Code28, Goa}],
             MaxRows)

\* a regions.csv and a tru.csv left by earlier work
PreloadedRegions == File(<<[state |-> Num(28), area_name |-> AndhraPradesh]>>)
StandardTru == File(<<[id |-> 1, name |-> "Total"], [id |-> 2, name |-> "Rural"],
                      [id |-> 3, name |-> "Urban"]>>)

CleanInit ==
    /\ cLabel = <<>> /\ cDisp = <<>> /\ cDisp2 = <<>> /\ cPhase = "off"
    /\ \E r \in {Absent, PreloadedRegions}, t \in {Absent, StandardTru} :
          files = [NoFiles EXCEPT ![HC_REGIONS_FILE] = r, ![HC_TRU_FILE] = t]
    /\ run = NoRun
    /\ db = EmptyDb /\ up = NoUpload

Ran(script, df, r) ==
    [script |-> script, seq |-> run.seq + 1, status |-> "saved", df |-> df,
     state |-> r.state, tru_id |-> r.tru_id,
     new_regions |-> IF script = "healthcare" THEN r.new_regions ELSE <<>>,
     name_to_id  |-> IF script = "healthcare" THEN r.name_to_id ELSE <<>>]

CleanHealthcare ==
    /\ run.seq < MaxRuns
    /\ \E df \in HealthInputs :
         LET r == ProcessHealthcare(files, df)
         IN  files' = r.files /\ run' = Ran("healthcare", df, r)
    /\ UNCHANGED <<canonVars, upVars>>

CleanPca ==
    /\ run.seq < MaxRuns
    /\ \E df \in PcaInputs :
         LET r == ProcessPca(files, df)
         IN  files' = r.files /\ run' = Ran("pca", df, r)
    /\ UNCHANGED <<canonVars, upVars>>

CleanReligion ==
    /\ run.seq < MaxRuns
    /\ \E df \in ReligionInputs :
         LET r == ProcessReligion(files, df)
         IN  files' = r.files /\ run' = Ran("religion", df, r)
    /\ UNCHANGED <<canonVars, upVars>>

CleanOccupation ==
    /\ run.seq < MaxRuns
    /\ \E df \in OccupationInputs :
         LET r == ProcessOccupation(files, df)
         IN  files' = r.files /\ run' = Ran("occupation", df, r)
    /\ UNCHANGED <<canonVars, upVars>>

CleanPopulation ==
    /\ run.seq < MaxRuns
    /\ \E df \in PopulationInputs :
         LET r == normalize_data(files, df)
         IN  files' = r.files /\ run' = Ran("population", df, r)
    /\ UNCHANGED <<canonVars, upVars>>

\* the input file cannot be read: the script prints the error and returns
CleanReadError ==
    /\ run.seq < MaxRuns
    /\ \E script \in {"healthcare", "pca", "religion", "occupation"} :
         run' = [NoRun EXCEPT !.script = script, !.seq = run.seq + 1,
                              !.status = "read_error"]
    /\ UNCHANGED <<files, canonVars, upVars>>

CleanNext == CleanHealthcare \/ CleanReligion \/ CleanReadError

SpecClean == CleanInit /\ [][CleanNext]_vars

(***************************************************************************)
(* Lookup rebuilds: the scripts that extract their lookups from the input  *)
(* on every run, started with empty output directories.                    *)
(***************************************************************************)
LookupsInit ==
    /\ cLabel = <<>> /\ cDisp = <<>> /\ cDisp2 = <<>> /\ cPhase = "off"
    /\ files = NoFiles
    /\ run = NoRun
    /\ db = EmptyDb /\ up = NoUpload

LookupsNext == CleanPca \/ CleanReligion \/ CleanOccupation \/ CleanPopulation

SpecLookups == LookupsInit /\ [][LookupsNext]_vars

(***************************************************************************)
(* The cleaners on one value: a column header for clean_column_name, a    *)
(* cell of the states column for the lambda of process_data.               *)
(***************************************************************************)
MaxText == 3        \* characters of a text value
MaxInt == 2         \* the largest int value

CleanerInputs ==
    {PyValue("None", <<>>, 0), PyValue("nan", <<>>, 0)}
    \cup {PyValue("int", <<>>, n) : n \in 0..MaxInt}
    \cup {PyValue("str", t, 0) :
             t \in UNION {[1..k -> {"A", "b", " ", ".", "_", "1"}] : k \in 0..MaxText}}

CleanersInit ==
    /\ cLabel \in CleanerInputs
    /\ cDisp = <<>>
    /\ cDisp2 = <<>>
    /\ cPhase = "in"
    /\ files = NoFiles
    /\ run = NoRun
    /\ db = EmptyDb /\ up = NoUpload

ApplyCleaners ==
    /\ cPhase = "in"
    /\ cDisp' = clean_column_name(cLabel)
    /\ cDisp2' = CleanStateOfCell(cLabel)
    /\ cPhase' = "cleaned"
    /\ UNCHANGED <<cLabel, files, run, upVars>>

SpecCleaners == CleanersInit /\ [][ApplyCleaners]_vars

(***************************************************************************)
(* Missing state names: clean_healthcare on a states column with a missing *)
(* cell or a blank one.                                                    *)
(***************************************************************************)
MissingHealthInputs ==
    SeqsUpTo([states_uts : {NaN, <<" ">>, Goa}, area : {"Total"}], MaxRows)

MissingHealthcare ==
    /\ run.seq < MaxRuns
    /\ \E df \in MissingHealthInputs :
         LET r == ProcessHealthcare(files, df)
         IN  files' = r.files /\ run' = Ran("healthcare", df, r)
    /\ UNCHANGED <<canonVars, upVars>>

SpecMissing == CleanInit /\ [][MissingHealthcare]_vars

(***************************************************************************)
(* Two processes running clean_healthcare against the same regions.csv.    *)
(* A run reads regions.csv (process_data line 93) and writes it back later *)
(* (line 120); another process may read or write the file in between.  run *)
(* holds, per process, its position, its dataframe, the regions.csv it     *)
(* read and what it added, and whether some run read the file while        *)
(* another had read it and not yet finished.                               *)
(***************************************************************************)
MaxRaceRuns == 3    \* runs started, over both processes

RaceProcs == {1, 2}
RaceInputs == SeqsUpTo([states_uts : HealthLabels, area : {"Total"}], MaxRows)

NoRace ==
    [script |-> "healthcare", runs |-> 0, concurrent |-> FALSE,
     proc |-> [p \in RaceProcs |->
                  [pc |-> "idle", df |-> <<>>, seen |-> Absent,
                   new_regions |-> <<>>, name_to_id |-> <<>>]]]

RaceInit ==
    /\ cLabel = <<>> /\ cDisp = <<>> /\ cDisp2 = <<>> /\ cPhase = "off"
    /\ \E r \in {Absent, PreloadedRegions} :
          files = [NoFiles EXCEPT ![HC_REGIONS_FILE] = r]
    /\ run = NoRace
    /\ db = EmptyDb /\ up = NoUpload

\* process p reads its sheet and regions.csv
RaceLoad(p) ==
    /\ run.proc[p].pc \in {"idle", "saved"}
    /\ run.runs < MaxRaceRuns
    /\ \E df \in RaceInputs :
         run' = [run EXCEPT
                   !.runs = @ + 1,
                   !.concurrent = @ \/ \E q \in RaceProcs \ {p} : run.proc[q].pc = "loaded",
                   !.proc[p] = [pc |-> "loaded", df |-> df,
                                seen |-> files[HC_REGIONS_FILE],
                                new_regions |-> <<>>, name_to_id |-> <<>>]]
    /\ UNCHANGED <<canonVars, files, upVars>>

\* process p merges into what it read, writes regions.csv when it added a
\* region, and goes on to the tru lookup and the stats file
RaceSave(p) ==
    /\ run.proc[p].pc = "loaded"
    /\ LET r == ProcessHealthcare([files EXCEPT ![HC_REGIONS_FILE] = run.proc[p].seen],
                                  run.proc[p].df)
       IN  /\ files' = [r.files EXCEPT ![HC_REGIONS_FILE] =
                           IF r.new_regions # <<>> THEN r.files[HC_REGIONS_FILE]
                           ELSE files[HC_REGIONS_FILE]]
           /\ run' = [run EXCEPT !.proc[p].pc = "saved",
                                 !.proc[p].new_regions = r.new_regions,
                                 !.proc[p].name_to_id = r.name_to_id]
    /\ UNCHANGED <<canonVars, upVars>>

RaceNext == \E p \in RaceProcs : RaceLoad(p) \/ RaceSave(p)

SpecRace == RaceInit /\ [][RaceNext]_vars

(***************************************************************************)
(* Allocation: clean_healthcare against no regions.csv, a regions.csv that *)
(* holds the header and no row, and one that holds a row.                  *)
(***************************************************************************)
AllocInit ==
    /\ cLabel = <<>> /\ cDisp = <<>> /\ cDisp2 = <<>> /\ cPhase = "off"
    /\ \E r \in {Absent, File(<<>>), PreloadedRegions} :
          files = [NoFiles EXCEPT ![HC_REGIONS_FILE] = r]
    /\ run = NoRun
    /\ db = EmptyDb /\ up = NoUpload

SpecAlloc == AllocInit /\ [][CleanHealthcare]_vars

(***************************************************************************)
(* Variants: clean_healthcare on state names that come in several          *)
(* spellings of one key: case variants, the typo Maharastra, and a         *)
(* repeated "State - " prefix.                                             *)
(***************************************************************************)
VariantLabels ==
    LET upper(s) == [i \in 1..Len(s) |-> ToUpper(s[i])]
        twice    == StatePrefix \o StatePrefix \o Goa
    IN  {Goa, upper(Goa), Title(Maharastra), Title(Maharashtra), twice, upper(twice)}

VariantInputs == SeqsUpTo([states_uts : VariantLabels, area : {"Total"}], MaxRows)

VariantHealthcare ==
    /\ run.seq < MaxRuns
    /\ \E df \in VariantInputs :
         LET r == ProcessHealthcare(files, df)
         IN  files' = r.files /\ run' = Ran("healthcare", df, r)
    /\ UNCHANGED <<canonVars, upVars>>

SpecVariants == LookupsInit /\ [][VariantHealthcare]_vars

(***************************************************************************)
(* Spellings: clean_healthcare and clean_religion, which share              *)
(* output_normalized/tru.csv, on tru and religion labels that differ only  *)
(* in case or surrounding whitespace.                                      *)
(***************************************************************************)
TruSpellings ==
    LET Total == <<"T", "o", "t", "a", "l">>
        Rural == <<"R", "u", "r", "a", "l">>
    IN  {Total, Lower(Total), <<" ">> \o Total, Rural}
ReligionSpellings ==
    LET Hindu == <<"H", "i", "n", "d", "u">>
    IN  {Hindu, Lower(Hindu)}

SpellingHealthInputs ==
    SeqsUpTo([states_uts : {Goa}, area : TruSpellings], MaxRows)
SpellingReligionInputs ==
    SeqsUpTo([state : {Num(30)}, tru : TruSpellings, religion : ReligionSpellings], MaxRows)

SpellingHealthcare ==
    /\ run.seq < MaxRuns
    /\ \E df \in SpellingHealthInputs :
         LET r == ProcessHealthcare(files, df)
         IN  files' = r.files /\ run' = Ran("healthcare", df, r)
    /\ UNCHANGED <<canonVars, upVars>>

SpellingReligion ==
    /\ run.seq < MaxRuns
    /\ \E df \in SpellingReligionInputs :
         LET r == ProcessReligion(files, df)
         IN  files' = r.files /\ run' = Ran("religion", df, r)
    /\ UNCHANGED <<canonVars, upVars>>

SpellingNext == SpellingHealthcare \/ SpellingReligion

SpecSpelling == LookupsInit /\ [][SpellingNext]_vars

(***************************************************************************)
(* From scratch: one run of clean_pca or clean_occupation on a tru column, *)
(* with empty output directories.                                          *)
(***************************************************************************)
MaxLabels == 4      \* rows of the tru column

FreshInputs == SeqsUpTo([state : {Num(1)}, tru : TruLabels], MaxLabels)

FreshInit ==
    /\ cLabel = <<>> /\ cDisp = <<>> /\ cDisp2 = <<>> /\ cPhase = "off"
    /\ files = NoFiles
    /\ \E df \in FreshInputs : run = [NoRun EXCEPT !.status = "input", !.df = df]
    /\ db = EmptyDb /\ up = NoUpload

FreshPca ==
    /\ run.status = "input"
    /\ LET r == ProcessPca(files, run.df)
       IN  files' = r.files /\ run' = Ran("pca", run.df, r)
    /\ UNCHANGED <<canonVars, upVars>>

\* the same tru column in the rows of Occupation.xls
OccupationRows(df) ==
    [i \in DOMAIN df |->
        [state_code |-> df[i].state, district_code |-> Num(0),
         area_name |-> StatePrefix \o Goa \o Code28, tru |-> df[i].tru,
         age_group |-> "Total"]]

FreshOccupation ==
    /\ run.status = "input"
    /\ LET r == ProcessOccupation(files, OccupationRows(run.df))
       IN  files' = r.files /\ run' = Ran("occupation", run.df, r)
    /\ UNCHANGED <<canonVars, upVars>>

FreshNext == FreshPca \/ FreshOccupation

SpecFresh == FreshInit /\ [][FreshNext]_vars

(***************************************************************************)
(* Upload runs: the four upload scripts run one after another against the  *)
(* same database, on the files the cleaning scripts left; clean_healthcare *)
(* may run again between two uploads.                                      *)
(***************************************************************************)
MaxUploads   == 2   \* upload runs in a behaviour
MaxFailPoint == 8   \* the statements of a call that may be rejected from outside
MaxRecleans  == 1   \* cleaning runs between the uploads

UploadScripts == {"healthcare", "pca", "religion", "population"}
FailPoints == 0..MaxFailPoint
Rest == {"idle", "DONE", "FAILED"}

\* regions.csv and population_stats.csv of clean_population, copied into
\* output_normalized/ where upload_population_normalized.py reads them
PopulationCopy ==
    [NoFiles EXCEPT ![HC_REGIONS_FILE] = PreloadedRegions,
                    ![POP_STATS_FILE]  = File(<<[state |-> Num(28)]>>)]

UploadHealthDf ==
    <<[states_uts |-> Goa, area |-> "Total"], [states_uts |-> Goa, area |-> "Rural"]>>
UploadHealthDf2 ==
    <<[states_uts |-> StatePrefix \o AndhraPradesh \o Code28, area |-> "Total"],
      [states_uts |-> Goa, area |-> "Semi-Urban"]>>
UploadReligionDf == <<[state |-> Num(28), tru |-> "Total", religion |-> "Hindu"]>>
UploadPcaDfs ==
    { <<[state |-> Num(28), tru |-> "Rural"], [state |-> Num(28), tru |-> "Total"]>>,
      <<[state |-> NaN, tru |-> "Total"]>> }

UploadInit ==
    /\ cLabel = <<>> /\ cDisp = <<>> /\ cDisp2 = <<>> /\ cPhase = "off"
    /\ \E base \in {NoFiles, PopulationCopy}, health \in BOOLEAN, pca \in UploadPcaDfs :
         LET f1 == IF health THEN ProcessHealthcare(base, UploadHealthDf).files ELSE base
             f2 == ProcessReligion(f1, UploadReligionDf).files
         IN  files = ProcessPca(f2, pca).files
    /\ run = NoRun
    /\ db = EmptyDb /\ up = NoUpload

\* clean_healthcare runs again while no upload is running
RecleanHealthcare ==
    /\ up.pc \in Rest
    /\ run.seq < MaxRecleans
    /\ LET r == ProcessHealthcare(files, UploadHealthDf2)
       IN  files' = r.files /\ run' = Ran("healthcare", UploadHealthDf2, r)
    /\ UNCHANGED <<canonVars, upVars>>

StartUpload ==
    /\ up.pc \in Rest
    /\ up.seq < MaxUploads
    /\ \E script \in UploadScripts :
         up' = [script |-> script, pc |-> "CONNECT", log |-> <<>>, seq |-> up.seq + 1,
                cleanSeq |-> run.seq,
                prev |-> [script |-> up.script, pc |-> up.pc, cleanSeq |-> up.cleanSeq]]
    /\ UNCHANGED <<canonVars, cleanVars, db>>

\* the first function each main block calls
FirstStep(script) ==
    CASE script = "healthcare" -> "update_regions"
      [] script = "pca"        -> "upload_tru"
      [] script = "religion"   -> "upload_lookups"
      [] script = "population" -> "upload_regions"

\* a main block that went on to its first function whatever SELECT 1 did
AfterConnectUnchecked(script, ok) == FirstStep(script)

\* the functions the main block of a script calls, in their order
MainBlock(script) ==
    CASE script = "healthcare" -> <<"update_regions", "upload_tru", "upload_stats">>
      [] script = "pca"        -> <<"upload_tru", "upload_pca">>
      [] script = "religion"   -> <<"upload_lookups", "upload_stats">>
      [] script = "population" -> <<"upload_regions", "upload_stats">>

\* a main block that tries SELECT 1 again when it failed
AfterConnectRetry(script, ok) == IF ok THEN FirstStep(script) ELSE "CONNECT"

\* where the main block goes after create_engine and SELECT 1
AfterConnect(script, ok) == IF ok THEN FirstStep(script) ELSE "FAILED"

Connect ==
    /\ up.pc = "CONNECT"
    /\ \E ok \in BOOLEAN :
         up' = [up EXCEPT !.pc = AfterConnect(up.script, ok),
                          !.log = Append(@, [op |-> "connect", table |-> "", ok |-> ok,
                                             ext |-> ~ok])]
    /\ UNCHANGED <<canonVars, cleanVars, db>>

\* the call returned st; the main block goes on at nextPc
Returned(st, nextPc) ==
    /\ db' = st.db
    /\ up' = [up EXCEPT !.log = st.log, !.pc = nextPc]
    /\ UNCHANGED <<canonVars, cleanVars>>

Outcome(st) == IF st.ret THEN "DONE" ELSE "FAILED"

HcUpdateRegions ==
    /\ up.script = "healthcare" /\ up.pc = "update_regions"
    /\ \E failAt \in FailPoints :
         Returned(update_regions(Call(db, up.log), files, failAt), "upload_tru")

HcUploadTru ==
    /\ up.script = "healthcare" /\ up.pc = "upload_tru"
    /\ \E failAt \in FailPoints :
         LET st == hc_upload_tru(Call(db, up.log), files, failAt)
         IN  Returned(st, IF st.ret THEN "upload_stats" ELSE "FAILED")

HcUploadStats ==
    /\ up.script = "healthcare" /\ up.pc = "upload_stats"
    /\ \E failAt \in FailPoints :
         LET st == hc_upload_stats(Call(db, up.log), files, failAt)
         IN  Returned(st, Outcome(st))

PcaUploadTru ==
    /\ up.script = "pca" /\ up.pc = "upload_tru"
    /\ \E failAt \in FailPoints :
         LET st == pca_upload_tru(Call(db, up.log), files, failAt)
         IN  Returned(st, IF st.ret THEN "upload_pca" ELSE "FAILED")

PcaUploadPca ==
    /\ up.script = "pca" /\ up.pc = "upload_pca"
    /\ \E failAt \in FailPoints :
         LET st == upload_pca(Call(db, up.log), files, failAt)
         IN  Returned(st, Outcome(st))

RelUploadLookups ==
    /\ up.script = "religion" /\ up.pc = "upload_lookups"
    /\ \E failAt \in FailPoints :
         Returned(upload_lookups(Call(db, up.log), files, failAt), "upload_stats")

RelUploadStats ==
    /\ up.script = "religion" /\ up.pc = "upload_stats"
    /\ \E failAt \in FailPoints :
         LET st == rel_upload_stats(Call(db, up.log), files, failAt)
         IN  Returned(st, Outcome(st))

PopUploadRegions ==
    /\ up.script = "population" /\ up.pc = "upload_regions"
    /\ \E failAt \in FailPoints :
         LET st == upload_regions(Call(db, up.log), files, failAt)
         IN  Returned(st, IF st.ret THEN "upload_stats" ELSE "FAILED")

PopUploadStats ==
    /\ up.script = "population" /\ up.pc = "upload_stats"
    /\ \E failAt \in FailPoints :
         LET st == pop_upload_stats(Call(db, up.log), files, failAt)
         IN  Returned(st, Outcome(st))

UploadNext ==
    \/ StartUpload \/ Connect
    \/ HcUpdateRegions \/ HcUploadTru \/ HcUploadStats
    \/ PcaUploadTru \/ PcaUploadPca
    \/ RelUploadLookups \/ RelUploadStats
    \/ PopUploadRegions \/ PopUploadStats
    \/ RecleanHealthcare

SpecUpload == UploadInit /\ [][UploadNext]_vars

(***************************************************************************)
(* Fact loads: upload_pca.upload_pca called again and again on             *)
(* pca_stats.csv files of zero to MaxFactRows rows, against a database     *)
(* with or without the dimension tables.                                   *)
(***************************************************************************)
MaxFactRows  == 3   \* rows of pca_stats.csv
MaxFactLoads == 2   \* calls of upload_pca

FactDatasets ==
    UNION {[1..k -> [state : {Num(28)}, tru_id : {Num(1), Num(2)}]] : k \in 0..MaxFactRows}

\* the database after upload_population_normalized.upload_regions and
\* upload_pca.upload_tru ran without a failure
DimsLoaded ==
    LET tru == [NoFiles EXCEPT ![PCA_TRU_FILE] =
                   File(<<[id |-> 1, name |-> "Total"], [id |-> 2, name |-> "Rural"]>>)]
        d1  == upload_regions(Call(EmptyDb, <<>>), PopulationCopy, 0).db
    IN  pca_upload_tru(Call(d1, <<>>), tru, 0).db

FactsInit ==
    /\ cLabel = <<>> /\ cDisp = <<>> /\ cDisp2 = <<>> /\ cPhase = "off"
    /\ \E ds \in FactDatasets : files = [NoFiles EXCEPT ![PCA_STATS_FILE] = File(ds)]
    /\ run = NoRun
    /\ db \in {EmptyDb, DimsLoaded}
    /\ up = [NoUpload EXCEPT !.script = "pca"]

\* clean_pca wrote another pca_stats.csv
FactsRewrite ==
    /\ up.pc \in {"DONE", "FAILED"}
    /\ up.seq < MaxFactLoads
    /\ \E ds \in FactDatasets \ {files[PCA_STATS_FILE].rows} :
         files' = [files EXCEPT ![PCA_STATS_FILE] = File(ds)]
    /\ up' = [up EXCEPT !.pc = "idle"]
    /\ UNCHANGED <<canonVars, run, db>>

FactsLoad ==
    /\ up.pc = "idle"
    /\ up.seq < MaxFactLoads
    /\ \E failAt \in FailPoints :
         LET st == upload_pca(Call(db, <<>>), files, failAt)
         IN  /\ db' = st.db
             /\ up' = [up EXCEPT !.seq = @ + 1, !.log = st.log, !.pc = Outcome(st)]
    /\ UNCHANGED <<canonVars, cleanVars>>

FactsNext == FactsRewrite \/ FactsLoad

SpecFacts == FactsInit /\ [][FactsNext]_vars

(***************************************************************************)
(* Fact frames: the columns of a fact dataset, their order and the         *)
(* coercion of the measure columns                                         *)
(***************************************************************************)
\* the column names the scripts use, as text
Col ==
    [table_code |-> <<"t","a","b","l","e","_","c","o","d","e">>,
     state_code |-> <<"s","t","a","t","e","_","c","o","d","e">>,
     district_code |-> <<"d","i","s","t","r","i","c","t","_","c","o","d","e">>,
     area_name |-> <<"a","r","e","a","_","n","a","m","e">>,
     tru |-> <<"t","r","u">>,
     age_group |-> <<"a","g","e","_","g","r","o","u","p">>,
     population_total |-> <<"p","o","p","u","l","a","t","i","o","n","_","t","o","t","a","l">>,
     population_male |-> <<"p","o","p","u","l","a","t","i","o","n","_","m","a","l","e">>,
     tru_id |-> <<"t","r","u","_","i","d">>,
     age_group_id |-> <<"a","g","e","_","g","r","o","u","p","_","i","d">>,
     state |-> <<"s","t","a","t","e">>,
     religion |-> <<"r","e","l","i","g","i","o","n">>,
     religion_id |-> <<"r","e","l","i","g","i","o","n","_","i","d">>,
     district |-> <<"d","i","s","t","r","i","c","t">>,
     states_uts |-> <<"s","t","a","t","e","s","_","u","t","s">>,
     area |-> <<"a","r","e","a">>,
     clean_state |-> <<"c","l","e","a","n","_","s","t","a","t","e">>,
     births |-> <<"b","i","r","t","h","s">>,
     deaths |-> <<"d","e","a","t","h","s">>]

\* the header of population.xls as it is spelled in the sheet
PopulationHeader ==
    <<<<"S","t","a","t","e">>, <<"A","r","e","a"," ","N","a","m","e">>,
      <<"T","o","t","a","l"," ","P","e","r","s","o","n","s">>,
      <<"T","o","t","a","l"," ","M","a","l","e","s">>>>

\* 'x in cols', cols.index(x)
HasColumn(cols, c) == \E i \in DOMAIN cols : cols[i] = c
IndexOf(cols, c) == CHOOSE i \in DOMAIN cols : cols[i] = c /\ \A j \in 1..(i - 1) : cols[j] # c

\* df[c] = ...: a new column goes to the end, an existing one keeps its place
Assign(cols, c) == IF HasColumn(cols, c) THEN cols ELSE Append(cols, c)

\* df.drop(columns=[c for c in names if c in df.columns])
DropColumns(cols, names) == SelectSeq(cols, LAMBDA c : c \notin names)

\* the column taken out and put back at the end
MoveToBack(cols, c, k) ==
    LET i == IndexOf(cols, c)
    IN  SubSeq(cols, 1, i - 1) \o SubSeq(cols, i + 1, Len(cols)) \o <<c>>

\* cols.insert(k, cols.pop(cols.index(c))), k counted from 0
MoveTo(cols, c, k) ==
    LET i    == IndexOf(cols, c)
        rest == SubSeq(cols, 1, i - 1) \o SubSeq(cols, i + 1, Len(cols))
        at   == IF k < Len(rest) THEN k ELSE Len(rest)
    IN  SubSeq(rest, 1, at) \o <<c>> \o SubSeq(rest, at + 1, Len(rest))

\* the value of a run of decimal digits
RECURSIVE NatOf(_)
NatOf(s) ==
    IF s = <<>> THEN 0
    ELSE 10 * NatOf(SubSeq(s, 1, Len(s) - 1))
         + (CHOOSE d \in 0..9 : PyStr(PyValue("int", <<>>, d)) = <<s[Len(s)]>>)

IsInteger(s) == s # <<>> /\ \A i \in DOMAIN s : IsDigit(s[i])
\* digits with one point: the text of a number with a fraction
IsDecimal(s) ==
    \E k \in DOMAIN s :
       /\ s[k] = "." /\ Len(s) > 1
       /\ \A i \in DOMAIN s : i # k => IsDigit(s[i])

\* A measure cell is a Python value: "nan", "int" (num), "float" (num is the
\* whole part, the fraction is not zero) or "str" (text).
\* pd.to_numeric(column, errors='coerce') on one cell
to_numeric(v) ==
    IF v.kind # "str" THEN v
    ELSE IF IsInteger(v.text) THEN PyValue("int", <<>>, NatOf(v.text))
    ELSE IF IsDecimal(v.text)
         THEN PyValue("float", <<>>,
                      NatOf(SubSeq(v.text, 1, (CHOOSE k \in DOMAIN v.text : v.text[k] = ".") - 1)))
    ELSE PyValue("nan", <<>>, 0)

\* fillna(0) on one cell
fillna0(v) == IF v.kind = "nan" THEN PyValue("int", <<>>, 0) ELSE v

\* astype(int) on one cell: a float is truncated, a str goes through int(),
\* which raises ValueError unless it is an integer literal
astype_int(v) ==
    CASE v.kind = "int"   -> v
      [] v.kind = "float" -> PyValue("int", <<>>, v.num)
      [] v.kind = "str"   -> IF IsInteger(v.text) THEN PyValue("int", <<>>, NatOf(v.text))
                             ELSE PyValue("raise", <<>>, 0)
      [] OTHER            -> PyValue("raise", <<>>, 0)

\* clean_occupation: the names given to the columns of the sheet (the first
\* two of its measure columns)
column_names ==
    <<Col.table_code, Col.state_code, Col.district_code, Col.area_name, Col.tru,
      Col.age_group, Col.population_total, Col.population_male>>

\* 'total' in c or 'male' in c or 'female' in c
IsNumericCol(c) ==
    \/ Contains(c, <<"t","o","t","a","l">>) \/ Contains(c, <<"m","a","l","e">>) \/ Contains(c, <<"f","e","m","a","l","e">>)

\* 'persons' in c or 'males' in c or 'females' in c
IsPopCol(c) ==
    \/ Contains(c, <<"p","e","r","s","o","n","s">>) \/ Contains(c, <<"m","a","l","e","s">>) \/ Contains(c, <<"f","e","m","a","l","e","s">>)

\* a cell of the coerced columns raised
Raised(fact) == \E i \in DOMAIN fact : \E c \in DOMAIN fact[i] : fact[i][c].kind = "raise"

\* process_occupation_data on rows [key, m]: key holds the code and label
\* columns, m the measure cells by column name.  The result adds the column
\* order of occupation_stats.csv and its measure cells.
OccupationFact(fs, df) ==
    LET kept    == SelectSeq(df, LAMBDA r : ~IsNaN(r.key.state_code))
        r       == ProcessOccupation(fs, [i \in DOMAIN df |-> df[i].key])
        added   == Assign(Assign(column_names, Col.tru_id), Col.age_group_id)
        cols    == DropColumns(added, {Col.area_name, Col.tru, Col.age_group,
                                       Col.district_code, Col.table_code})
        numeric_cols == SelectSeq(cols, IsNumericCol)
        fact    == [i \in DOMAIN kept |->
                      [c \in DOMAIN kept[i].m |->
                          IF HasColumn(numeric_cols, c)
                          THEN astype_int(fillna0(to_numeric(kept[i].m[c])))
                          ELSE kept[i].m[c]]]
        keys    == <<Col.state_code, Col.tru_id, Col.age_group_id>>
        metrics == SelectSeq(cols, LAMBDA c : ~HasColumn(keys, c))
    IN  IF Raised(fact)
        THEN [files |-> [r.files EXCEPT ![OCC_STATS_FILE] = fs[OCC_STATS_FILE]],
              status |-> "error", columns |-> <<>>, fact |-> <<>>,
              state |-> <<>>, tru_id |-> <<>>]
        ELSE [files |-> r.files, status |-> "saved", columns |-> keys \o metrics,
              fact |-> fact, state |-> r.state, tru_id |-> r.tru_id]

\* clean_population: process_population_data, then normalize_data, on a sheet
\* with the given header and rows [key, m]
PopulationFact(fs, header, df) ==
    LET named    == [i \in DOMAIN header |-> clean_column_name(PyValue("str", header[i], 0))]
        cols     == DropColumns(named, {<<"t","a","b","l","e">>})
        pop_cols == SelectSeq(cols, IsPopCol)
        fact     == [i \in DOMAIN df |->
                       [c \in DOMAIN df[i].m |->
                           IF HasColumn(pop_cols, c) THEN astype_int(fillna0(df[i].m[c]))
                           ELSE df[i].m[c]]]
        r        == normalize_data(fs, [i \in DOMAIN df |-> df[i].key])
        stats    == DropColumns(DropColumns(cols, {<<"d","i","s","t","t">>}), {Col.area_name})
    IN  IF Raised(fact)
        THEN [files |-> fs, status |-> "error", columns |-> <<>>, fact |-> <<>>,
              state |-> <<>>, tru_id |-> <<>>]
        ELSE [files |-> r.files, status |-> "saved", columns |-> stats,
              fact |-> fact, state |-> r.state, tru_id |-> r.tru_id]

\* clean_healthcare.process_data: the column order of healthcare_stats.csv for
\* a sheet whose cleaned header is cols
HealthcareColumns(cols) ==
    LET added   == Assign(Assign(Assign(cols, Col.clean_state), Col.state), Col.tru_id)
        dropped == DropColumns(added, {Col.states_uts, Col.area, Col.clean_state})
        first   == IF HasColumn(dropped, Col.state)
                   THEN MoveTo(dropped, Col.state, 0) ELSE dropped
    IN  IF HasColumn(first, Col.tru_id) THEN MoveTo(first, Col.tru_id, 1) ELSE first

\* for col in [...]: if col in cols: cols.insert(0, cols.pop(cols.index(col)))
RECURSIVE MoveEachToFront(_, _)
MoveEachToFront(cols, names) ==
    IF names = <<>> THEN cols
    ELSE MoveEachToFront(IF HasColumn(cols, Head(names))
                         THEN MoveTo(cols, Head(names), 0) ELSE cols,
                         Tail(names))

\* clean_religion.process_religion_data: the column order of religion_stats.csv
ReligionColumns(cols) ==
    LET added   == Assign(Assign(cols, Col.tru_id), Col.religion_id)
        dropped == DropColumns(added, {Col.religion, Col.tru, Col.district,
                                       <<"s","u","b","d","i","s","t","t">>, <<"t","o","w","n","v","i","l","l","a","g","e">>, <<"n","a","m","e">>})
    IN  MoveEachToFront(dropped, <<Col.tru_id, Col.religion_id, Col.state>>)

\* the values a measure cell of a sheet can hold: empty, whole numbers, a
\* number with a fraction (1.5), and text: "2", "1.5" and a dash
MeasureCells ==
    {PyValue("nan", <<>>, 0), PyValue("int", <<>>, 0), PyValue("int", <<>>, 2),
     PyValue("float", <<>>, 1), PyValue("str", <<"2">>, 0),
     PyValue("str", <<"1", ".", "5">>, 0), PyValue("str", <<"-">>, 0)}

OccupationMeasures == {c \in Range(column_names) : IsNumericCol(c)}
PopulationMeasures ==
    {clean_column_name(PyValue("str", PopulationHeader[i], 0)) : i \in {3, 4}}

FrameOccupationInputs ==
    SeqsUpTo([key : [state_code : {Num(1), NaN}, district_code : {Num(0)},
                     area_name : {StatePrefix \o Goa \o Code28},
                     tru : {"Total"}, age_group : {"Total"}],
              m : [OccupationMeasures -> MeasureCells]], MaxRows)

FramePopulationInputs ==
    SeqsUpTo([key : [state : {Num(28)}, area_name : {AndhraPradesh}],
              m : [PopulationMeasures -> MeasureCells]], MaxRows)

\* the orders in which a sheet can hold a set of columns
Orders(S) ==
    {s \in [1..Cardinality(S) -> S] : \A i, j \in DOMAIN s : s[i] = s[j] => i = j}

\* cleaned headers of healthcare and religion sheets with two measure columns
HealthcareHeaders ==
    LET base == {Col.states_uts, Col.area, Col.births, Col.deaths}
    IN  Orders(base) \cup Orders(base \cup {Col.state})
ReligionHeaders ==
    LET base == {Col.state, Col.tru, Col.religion, Col.births, Col.deaths}
    IN  Orders(base) \cup Orders(base \cup {Col.district})

\* the record of a run together with the columns of its fact file
RanFrame(script, source, df, r) ==
    [Ran(script, df, r) EXCEPT !.status = r.status]
       @@ [source |-> source, columns |-> r.columns, fact |-> r.fact]

FrameOccupation ==
    /\ run.seq = 0
    /\ \E df \in FrameOccupationInputs :
         LET r == OccupationFact(files, df)
         IN  files' = r.files /\ run' = RanFrame("occupation", column_names, df, r)
    /\ UNCHANGED <<canonVars, upVars>>

FramePopulation ==
    /\ run.seq = 0
    /\ \E df \in FramePopulationInputs :
         LET r == PopulationFact(files, PopulationHeader, df)
         IN  files' = r.files /\ run' = RanFrame("population", PopulationHeader, df, r)
    /\ UNCHANGED <<canonVars, upVars>>

FrameHealthcare ==
    /\ run.seq = 0
    /\ \E cols \in HealthcareHeaders :
         LET df == <<[states_uts |-> Goa, area |-> "Total"]>>
             r  == ProcessHealthcare(files, df)
         IN  /\ files' = r.files
             /\ run' = Ran("healthcare", df, r)
                          @@ [source |-> cols, columns |-> HealthcareColumns(cols),
                              fact |-> <<>>]
    /\ UNCHANGED <<canonVars, upVars>>

FrameReligion ==
    /\ run.seq = 0
    /\ \E cols \in ReligionHeaders :
         LET df == <<[state |-> Num(1), tru |-> "Total", religion |-> "Hindu"]>>
             r  == ProcessReligion(files, df)
         IN  /\ files' = r.files
             /\ run' = Ran("religion", df, r)
                          @@ [source |-> cols, columns |-> ReligionColumns(cols),
                              fact |-> <<>>]
    /\ UNCHANGED <<canonVars, upVars>>

FramesNext == FrameOccupation \/ FramePopulation \/ FrameHealthcare \/ FrameReligion

SpecFrames == LookupsInit /\ [][FramesNext]_vars

(***************************************************************************)
(* Column names: clean_column_name as each cleaner defines it.  The model's *)
(* clean_column_name above is the one of clean_religion and                 *)
(* clean_population, which are the same code.                               *)
(***************************************************************************)
\* s.replace(old, new): every occurrence, left to right
RECURSIVE Replace(_, _, _)
Replace(s, old, new) ==
    LET at == {i \in 1..(Len(s) - Len(old) + 1) : SubSeq(s, i, i + Len(old) - 1) = old}
    IN  IF at = {} THEN s
        ELSE LET i == CHOOSE i \in at : \A j \in at : i <= j
             IN  SubSeq(s, 1, i - 1) \o new
                    \o Replace(SubSeq(s, i + Len(old), Len(s)), old, new)

\* the whole text, whatever n is
PrefixAll(s, n) == s

\* s[:n]
Prefix(s, n) == SubSeq(s, 1, IF Len(s) < n THEN Len(s) ELSE n)

\* re.sub(r'\s+', '_', s)
SpacesToUnderscore(s) ==
    LET FirstOfRun(i) == ~IsSpace(s[i]) \/ i = 1 \/ ~IsSpace(s[i-1])
        idx == SelectSeq([i \in 1..Len(s) |-> i], FirstOfRun)
    IN  [k \in 1..Len(idx) |-> IF IsSpace(s[idx[k]]) THEN "_" ELSE s[idx[k]]]

\* the characters re's [a-z0-9_] matches
IsKeyChar(c) == IsLower(c) \/ IsDigit(c) \/ c = "_"

\* clean_pca.clean_column_name
pca_clean_column_name(name) ==
    IF ~Truthy(name) THEN <<"c","o","l">>
    ELSE LET s    == SelectSeq(SpacesToUnderscore(Strip(Lower(PyStr(name)))), IsKeyChar)
             p    == Replace(s, <<"p","o","p","u","l","a","t","i","o","n","_","p","e","r","s","o","n">>,
                             <<"p","e","r","s","o","n">>)
             m    == Replace(p, <<"p","o","p","u","l","a","t","i","o","n","_","m","a","l","e">>, <<"m","a","l","e">>)
             f    == Replace(m, <<"p","o","p","u","l","a","t","i","o","n","_","f","e","m","a","l","e">>,
                             <<"f","e","m","a","l","e">>)
         IN  Prefix(f, KeyLen)

\* clean_healthcare.clean_column_name: the replacements dict, in its order
replacements ==
    <<<<<<"p","e","r"," ","1",",","0","0","0"," ","l","i","v","e"," ","b","i","r","t","h","s">>,
        <<>>>>,
      <<<<"p","e","r"," ","1","0","0",",","0","0","0"," ","l","i","v","e"," ","b","i","r","t","h","s">>,
        <<>>>>,
      <<<<"p","e","r","c","e","n","t","a","g","e">>,
        <<"p","c","t">>>>,
      <<<<"p","o","p","u","l","a","t","i","o","n">>,
        <<"p","o","p">>>>,
      <<<<"h","o","u","s","e","h","o","l","d","s">>,
        <<"h","h">>>>,
      <<<<"c","h","i","l","d","r","e","n"," ","u","n","d","e","r"," ","a","g","e"," ","5"," ","y","e","a","r","s">>,
        <<"c","h","i","l","d","_","u","5">>>>,
      <<<<"w","o","m","e","n"," ","a","g","e"," ","1","5","-","4","9"," ","y","e","a","r","s">>,
        <<"w","o","m","e","n","_","1","5","_","4","9">>>>,
      <<<<"m","e","n"," ","a","g","e"," ","1","5","-","5","4"," ","y","e","a","r","s">>,
        <<"m","e","n","_","1","5","_","5","4">>>>,
      <<<<"l","i","t","e","r","a","t","e">>,
        <<"l","i","t">>>>,
      <<<<"a","n","t","e","n","a","t","a","l">>,
        <<"a","n","c">>>>,
      <<<<"p","o","s","t","n","a","t","a","l">>,
        <<"p","n","c">>>>,
      <<<<"i","n","s","t","i","t","u","t","i","o","n","a","l">>,
        <<"i","n","s","t">>>>,
      <<<<"o","u","t","-","o","f","-","p","o","c","k","e","t">>,
        <<"o","o","p">>>>,
      <<<<"e","x","p","e","n","d","i","t","u","r","e">>,
        <<"e","x","p">>>>>>

RECURSIVE ReplaceEach(_, _)
ReplaceEach(s, pairs) ==
    IF pairs = <<>> THEN s
    ELSE ReplaceEach(Replace(s, Head(pairs)[1], Head(pairs)[2]), Tail(pairs))

\* re.sub(r'\([^)]*\)', '', s): from a "(" to the next ")"
RECURSIVE RemoveParens(_)
RemoveParens(s) ==
    LET opens == {i \in DOMAIN s : s[i] = "(" /\ \E j \in (i + 1)..Len(s) : s[j] = ")"}
    IN  IF opens = {} THEN s
        ELSE LET open  == CHOOSE i \in opens : \A j \in opens : i <= j
                 close == CHOOSE i \in (open + 1)..Len(s) :
                             s[i] = ")" /\ \A j \in (open + 1)..(i - 1) : s[j] # ")"
             IN  SubSeq(s, 1, open - 1) \o RemoveParens(SubSeq(s, close + 1, Len(s)))

\* re.sub(r'_+', '_', s).strip('_')
CollapseUnderscores(s) ==
    LET idx  == SelectSeq([i \in 1..Len(s) |-> i],
                          LAMBDA i : s[i] # "_" \/ i = 1 \/ s[i-1] # "_")
        one  == [k \in 1..Len(idx) |-> s[idx[k]]]
        keep == {i \in 1..Len(one) : one[i] # "_"}
    IN  IF keep = {} THEN <<>>
        ELSE SubSeq(one, CHOOSE i \in keep : \A j \in keep : i <= j,
                         CHOOSE i \in keep : \A j \in keep : j <= i)

hc_clean_column_name(name) ==
    IF ~Truthy(name) THEN <<"c","o","l">>
    ELSE LET s       == ReplaceEach(Strip(Lower(PyStr(name))), replacements)
             bare    == RemoveParens(s)
             special == [i \in 1..Len(bare) |-> IF IsKeyChar(bare[i]) THEN bare[i] ELSE "_"]
         IN  Prefix(CollapseUnderscores(special), KeyLen)

MaxPieces == 3      \* pieces of a column header

\* pieces of the headers of the census sheets
HeaderPieces ==
    {<<"P","o","p","u","l","a","t","i","o","n"," ","P","e","r","s","o","n">>,
     <<"H","o","u","s","e","h","o","l","d","s"," ","w","i","t","h"," ","e","l","e","c","t","r","i","c","i","t","y"," ","(","%",")">>,
     <<"I","n","f","a","n","t"," ","m","o","r","t","a","l","i","t","y"," ","r","a","t","e"," ","p","e","r"," ","1",",","0","0","0"," ","l","i","v","e"," ","b","i","r","t","h","s">>,
     <<" ","W","o","m","e","n"," ","a","g","e"," ","1","5","-","4","9"," ","y","e","a","r","s"," ","w","h","o"," ","a","r","e"," ","l","i","t","e","r","a","t","e"," ">>,
     <<"_","_">>,
     <<"(">>,
     <<"T","o","t","a","l","/","R","u","r","a","l","-","U","r","b","a","n"," ","2","0","1","1">>,
     <<"M","a","i","n"," ","W","o","r","k","e","r","s"," ","-"," ","P","o","p","u","l","a","t","i","o","n"," "," ","F","e","m","a","l","e">>}

RECURSIVE Concat(_)
Concat(ss) == IF ss = <<>> THEN <<>> ELSE Head(ss) \o Concat(Tail(ss))

\* what a header cell of a sheet can hold
ColumnNameInputs ==
    {PyValue("None", <<>>, 0), PyValue("nan", <<>>, 0), PyValue("str", <<>>, 0)}
    \cup {PyValue("int", <<>>, n) : n \in 0..MaxInt}
    \cup {PyValue("str", Concat(ps), 0) : ps \in SeqsUpTo(HeaderPieces, MaxPieces)}

ColumnsInit ==
    /\ cLabel \in ColumnNameInputs
    /\ cDisp = <<>>
    /\ cDisp2 = <<>>
    /\ cPhase = "header"
    /\ files = NoFiles
    /\ run = NoRun
    /\ db = EmptyDb /\ up = NoUpload

\* df.columns = [clean_column_name(c) for c in df.columns], in each cleaner
CleanColumnNames ==
    /\ cPhase = "header"
    /\ cDisp' = [pca        |-> pca_clean_column_name(cLabel),
                 healthcare |-> hc_clean_column_name(cLabel),
                 religion   |-> clean_column_name(cLabel),
                 population |-> clean_column_name(cLabel)]
    /\ cPhase' = "named"
    /\ UNCHANGED <<cLabel, cDisp2, files, run, upVars>>

SpecColumns == ColumnsInit /\ [][CleanColumnNames]_vars

(***************************************************************************)
(* Claims about the cleaning scripts                                       *)
(***************************************************************************)
\* this step is a run of clean_healthcare right after another one
HealthcareRerun ==
    /\ run.script = "healthcare" /\ run.status = "saved"
    /\ run'.script = "healthcare" /\ run'.status = "saved"
    /\ run'.seq = run.seq + 1

Labels(r) == Range(Column(r.df, "states_uts"))

\* C1: id stability of the regions merge: when a run on the labels A is
\* followed by a run on A plus new labels, against the file the first run
\* saved, every label of A resolves in the second run to the id it had in
\* the first, whatever the order of the second input
C1_IdStable ==
    [][ (HealthcareRerun /\ Labels(run) \subseteq Labels(run'))
          => \A i \in DOMAIN run.df, j \in DOMAIN run'.df :
                run.df[i].states_uts = run'.df[j].states_uts
                    => run'.state[j] = run.state[i] ]_vars

\* C9: delta minimality of the regions merge: a second run on the same
\* input right after the first produces no new region row, leaves the id
\* map as it was and does not rewrite regions.csv
C9_IdleRerun ==
    [][ (HealthcareRerun /\ run'.df = run.df)
          => /\ run'.new_regions = <<>>
             /\ run'.name_to_id = run.name_to_id
             /\ files'[HC_REGIONS_FILE] = files[HC_REGIONS_FILE] ]_vars

StatsFileOf(script) == IF script = "healthcare" THEN HC_STATS_FILE ELSE REL_STATS_FILE

\* C5: a run of clean_healthcare or clean_religion in which a fact row's area
\* label has no entry in the tru registry (its tru_id maps to nothing) aborts
\* before it writes the fact output
C5_UnmappedAborts ==
    [][ (/\ run'.seq = run.seq + 1
         /\ run'.script \in {"healthcare", "religion"}
         /\ \E i \in DOMAIN run'.tru_id : IsNaN(run'.tru_id[i]))
          => files'[StatsFileOf(run'.script)] = files[StatsFileOf(run'.script)] ]_vars

\* the label column of each surrogate-keyed dimension file
LabelColumn == (PCA_TRU_FILE :> "name") @@ (REL_TRU_FILE :> "name")
                @@ (OCC_TRU_FILE :> "name") @@ (OCC_AGE_GROUPS_FILE :> "name")
                @@ (REL_RELIGIONS_FILE :> "religion_name")

\* C2: a (label, id) pair once written to tru.csv, religions.csv or
\* age_groups.csv is never changed by a later run: the label keeps its id
\* and the id keeps its label
C2_PairsImmutable ==
    [][ \A f \in DOMAIN LabelColumn :
          \A i \in DOMAIN files[f].rows, j \in DOMAIN files'[f].rows :
             LET old == files[f].rows[i]
                 new == files'[f].rows[j]
                 col == LabelColumn[f]
             IN  /\ new[col] = old[col] => new.id = old.id
                 /\ new.id = old.id => new[col] = old[col] ]_vars


\* the regions files: state is the id, area_name the label
RegionsFiles == {HC_REGIONS_FILE, POPN_REGIONS_FILE}

\* C11: a persisted regions file has no two rows with the same id (state)
\* and no two rows whose labels canonicalize to the same key.
C11_DimensionUnique ==
    \A f \in RegionsFiles : \A i, j \in DOMAIN files[f].rows :
       i # j => /\ RegionState(files[f].rows[i]) # RegionState(files[f].rows[j])
                /\ RegionNormName(files[f].rows[i]) # RegionNormName(files[f].rows[j])

AndhraPradeshKey == <<"a","n","d","h","r","a"," ","p","r","a","d","e","s","h">>
StateAndhraPradesh28 == StatePrefix \o AndhraPradesh \o Code28

\* C13: with regions.csv holding the single row (28, Andhra Pradesh), the
\* label "State - Andhra Pradesh (28)" canonicalizes to "andhra pradesh" and a
\* run of clean_healthcare gives its rows the id 28 and adds no region row for
\* it; when it is the only label, regions.csv is left as it was.
C13_PreloadedResolves ==
    [][ (/\ run'.seq = run.seq + 1
         /\ run'.script = "healthcare" /\ run'.status = "saved"
         /\ files[HC_REGIONS_FILE] = PreloadedRegions)
        => /\ NormName(clean_state_name(StateAndhraPradesh28)) = AndhraPradeshKey
           /\ \A k \in DOMAIN run'.df :
                 run'.df[k].states_uts = StateAndhraPradesh28 => run'.state[k] = Num(28)
           /\ \A i \in DOMAIN run'.new_regions :
                 NormName(run'.new_regions[i].area_name) # AndhraPradeshKey
           /\ (\A k \in DOMAIN run'.df : run'.df[k].states_uts = StateAndhraPradesh28)
                 => /\ run'.new_regions = <<>>
                    /\ files'[HC_REGIONS_FILE] = PreloadedRegions ]_vars

\* C13's case: the label was the input of a run on the preloaded registry
C13_LabelResolved ==
    /\ run.seq = 1 /\ run.script = "healthcare" /\ run.status = "saved"
    /\ \A k \in DOMAIN run.df : run.df[k].states_uts = StateAndhraPradesh28
    /\ run.state[1] = Num(28)
    /\ files[HC_REGIONS_FILE] = PreloadedRegions

\* the tru file the last run wrote
TruFileOf(script) == IF script = "pca" THEN PCA_TRU_FILE ELSE OCC_TRU_FILE

\* the first position of label l in the tru column
FirstAt(df, l) == CHOOSE i \in DOMAIN df : df[i].tru = l /\ \A j \in 1..(i-1) : df[j].tru # l

RuralUrbanTotalRural ==
    <<[state |-> Num(1), tru |-> "Rural"], [state |-> Num(1), tru |-> "Urban"],
      [state |-> Num(1), tru |-> "Total"], [state |-> Num(1), tru |-> "Rural"]>>

\* C12: a tru dimension built from scratch has one row per distinct label,
\* with the ids 1..n in order of first occurrence, and every input row gets
\* the id of its label; the labels Rural, Urban, Total, Rural give Rural=1,
\* Urban=2, Total=3 in three rows.
C12_FirstOccurrenceIds ==
    run.status = "saved" =>
       LET rows == files[TruFileOf(run.script)].rows
           df   == run.df
       IN  /\ \A i \in DOMAIN rows : rows[i].id = i
           /\ \A k \in DOMAIN df :
                 /\ Cardinality({i \in DOMAIN rows : rows[i].name = df[k].tru}) = 1
                 /\ \E i \in DOMAIN rows :
                       rows[i].name = df[k].tru /\ run.tru_id[k] = Num(rows[i].id)
           /\ \A i \in DOMAIN rows : \E k \in DOMAIN df : df[k].tru = rows[i].name
           /\ \A i, j \in DOMAIN rows :
                 i < j => FirstAt(df, rows[i].name) < FirstAt(df, rows[j].name)
           /\ df = RuralUrbanTotalRural =>
                 /\ rows = <<[id |-> 1, name |-> "Rural"], [id |-> 2, name |-> "Urban"],
                             [id |-> 3, name |-> "Total"]>>
                 /\ run.tru_id = <<Num(1), Num(2), Num(3), Num(1)>>

\* C12's case: the scenario's column has been processed
C12_ScenarioProcessed ==
    run.status = "saved" /\ run.df = RuralUrbanTotalRural

(***************************************************************************)
(* Claims about the upload scripts                                         *)
(***************************************************************************)
IsPrefix(a, b) == Len(a) <= Len(b) /\ SubSeq(b, 1, Len(a)) = a

\* the key columns of a fact table and the dimension each one references
FactKeys(t) ==
    CASE t = "population_stats" -> {Fk("fk_regions", "state", "regions")}
      [] t = "healthcare_stats" -> {Fk("fk_regions_health", "state", "regions"),
                                    Fk("fk_tru_health", "tru_id", "tru")}
      [] t = "pca_stats"        -> {Fk("fk_regions_pca", "state", "regions"),
                                    Fk("fk_tru_pca", "tru_id", "tru")}
      [] t = "religion_stats"   -> {Fk("fk_regions_rel", "state", "regions"),
                                    Fk("fk_religions_lookup", "religion_id", "religions"),
                                    Fk("fk_tru_rel", "tru_id", "tru")}

\* C3: a step of an upload run leaves the rows a dimension table held where
\* they were and only appends rows whose id the table did not hold: it never
\* drops, replaces or modifies them.
C3_DimensionsAppendOnly ==
    [][\A t \in DimTables :
          db[t].exists =>
             /\ db'[t].exists
             /\ IsPrefix(db[t].rows, db'[t].rows)
             /\ \A i \in (Len(db[t].rows) + 1)..Len(db'[t].rows) :
                   PkCell(t, db'[t].rows[i]) \notin PkCells(db, t)]_vars

\* C4: between the runs every fact row of the destination holds, in each of
\* its key columns, a value that is a primary key of the dimension table the
\* column references.
C4_NoOrphanFacts ==
    up.pc \in Rest =>
       \A t \in FactTables : \A fk \in FactKeys(t) : \A i \in DOMAIN db[t].rows :
          db[fk.ref].pk /\ db[t].rows[i][fk.col] \in PkCells(db, fk.ref)

\* the connection (or SELECT 1) of the current run failed
ConnectFailed ==
    up.log # <<>> /\ up.log[1].op = "connect" /\ ~up.log[1].ok

\* C6: once the connection of a run has failed the run is over (FAILED) and
\* no step of it attempts a statement or changes the destination.
C6_NoWriteAfterConnectFailure ==
    [][ConnectFailed =>
          /\ up.pc = "FAILED"
          /\ up'.seq = up.seq => (db' = db /\ up' = up)]_vars

\* C6's case: a run against a destination that holds tables failed to connect
C6_ConnectFailedOnLoadedDb ==
    ConnectFailed /\ up.pc = "FAILED" /\ db["regions"].exists /\ db["tru"].exists

\* a statement that loads a dimension table was rejected, or its file is missing
DimensionLoadFailed(e) ==
    e.table \in DimTables /\ ~e.ok /\ e.op \in {"file", "select", "replace", "append", "pk"}
\* rows were written to a fact table
FactWrite(e) == e.table \in FactTables /\ e.ok /\ e.op \in {"replace", "append"}

\* C7: when the load of a dimension table failed in a run, the run does not
\* end DONE and writes no row to a fact table afterwards.
C7_DimensionFailureStopsRun ==
    \A i \in DOMAIN up.log :
       DimensionLoadFailed(up.log[i]) =>
          /\ up.pc # "DONE"
          /\ \A j \in DOMAIN up.log : j > i => ~FactWrite(up.log[j])

\* the current run repeats the script of the run before it, which ended DONE,
\* on the same cleaned files, and nothing outside the database rejected any of
\* its statements
CleanRerun ==
    /\ up.seq >= 2
    /\ up.prev.script = up.script /\ up.prev.pc = "DONE"
    /\ up.prev.cleanSeq = up.cleanSeq /\ run.seq = up.cleanSeq
    /\ \A i \in DOMAIN up.log : ~up.log[i].ext

\* C8: the second run of an upload script on unchanged files, after a first
\* run that ended DONE, does not fail.
C8_RerunSucceeds == CleanRerun => up.pc # "FAILED"


\* a primary-key, foreign-key or access-policy statement was rejected
ConstraintRejected(e) ==
    ~e.ok /\ e.op \in {"pk", "fk", "rls", "drop_policy", "create_policy"}

\* C14: a rejected primary-key, foreign-key or policy statement is the last
\* statement of its run, and the run is FAILED.
C14_ConstraintFailureFatal ==
    \A i \in DOMAIN up.log :
       ConstraintRejected(up.log[i]) => (i = Len(up.log) /\ up.pc = "FAILED")


\* the chunks the fact load of table t has to upload
FactChunks(t) ==
    CASE t = "population_stats" -> <<files[POP_STATS_FILE].rows>>
      [] t = "healthcare_stats" -> Chunks(files[HC_STATS_FILE].rows)
      [] t = "pca_stats"        -> Chunks(files[PCA_STATS_FILE].rows)
      [] t = "religion_stats"   -> Chunks(files[REL_STATS_FILE].rows)

\* the entries of the log before position j that succeeded on table t with
\* one of the operations ops
DoneBefore(j, t, ops) ==
    {i \in 1..(j - 1) : up.log[i].table = t /\ up.log[i].ok /\ up.log[i].op \in ops}

\* C15: in a run, a foreign key of a fact table is attempted only after all the
\* chunks of the table were uploaded, a foreign key the table holds references
\* an existing dimension table that contains every id the rows reference, and
\* a policy statement on the fact table comes only after all its foreign keys
\* were added.
C15_FactLoadOrder ==
    /\ \A j \in DOMAIN up.log :
          LET e == up.log[j]
          IN  e.table \in FactTables =>
                /\ e.op = "fk" =>
                      Cardinality(DoneBefore(j, e.table, {"replace", "append"}))
                         = Len(FactChunks(e.table))
                /\ e.op \in {"rls", "drop_policy", "create_policy"} =>
                      Cardinality(DoneBefore(j, e.table, {"fk"}))
                         = Cardinality(FactKeys(e.table))
    /\ \A t \in FactTables : \A fk \in db[t].fks :
          /\ db[fk.ref].exists
          /\ \A i \in DOMAIN db[t].rows :
                IsNaN(db[t].rows[i][fk.col]) \/ db[t].rows[i][fk.col] \in PkCells(db, fk.ref)

\* C15's case: a fact load of several chunks went through to the policy
C15_FactsLinkedAndSecured ==
    /\ up.script = "healthcare" /\ up.pc = "DONE"
    /\ Len(db["healthcare_stats"].rows) > ChunkSize
    /\ Cardinality(db["healthcare_stats"].fks) = 2
    /\ db["healthcare_stats"].policy


\* two labels differ only in case or surrounding whitespace
SameKey(a, b) == Lower(Strip(a)) = Lower(Strip(b))

\* the label column of the last run's input
TruColumn == IF run.script = "healthcare" THEN Column(run.df, "area")
             ELSE Column(run.df, "tru")

\* C16: in the tru and religions files no two rows carry labels with the same
\* canonical key, and two rows of a run's input whose tru labels have the same
\* canonical key get the same tru id, whichever run created the tru file.
C16_CrossFileIdentity ==
    /\ \A i, j \in DOMAIN files[REL_TRU_FILE].rows :
          SameKey(files[REL_TRU_FILE].rows[i].name, files[REL_TRU_FILE].rows[j].name)
             => i = j
    /\ \A i, j \in DOMAIN files[REL_RELIGIONS_FILE].rows :
          SameKey(files[REL_RELIGIONS_FILE].rows[i].religion_name,
                  files[REL_RELIGIONS_FILE].rows[j].religion_name) => i = j
    /\ run.script \in {"healthcare", "religion"} =>
          \A i, j \in DOMAIN TruColumn :
             SameKey(TruColumn[i], TruColumn[j]) =>
                ~IsNaN(run.tru_id[i]) /\ run.tru_id[i] = run.tru_id[j]


\* a missing value: None, NaN or the empty text
Missing(v) == v.kind \in {"None", "nan"} \/ (v.kind = "str" /\ v.text = <<>>)

\* C17: for a missing value clean_column_name gives "col" and the cleaner of
\* the states column gives the empty text.
C17_MissingToPlaceholder ==
    (cPhase = "cleaned" /\ Missing(cLabel)) =>
        (cDisp = <<"c","o","l">> /\ cDisp2 = <<>>)


\* the state name of the cell is missing: no value, or nothing but whitespace
MissingState(c) == IsNaN(c) \/ Strip(c) = <<>>

\* C18: a row of a clean_healthcare run whose state name is missing gets no
\* state id, and the run adds no region for it.
C18_MissingNotRegistered ==
    run.script = "healthcare" =>
       \A i \in DOMAIN run.df :
          MissingState(run.df[i].states_uts) =>
             /\ IsNaN(run.state[i])
             /\ \A k \in DOMAIN run.new_regions :
                   run.new_regions[k].area_name
                      # CleanStateOfCell(CellValue(run.df[i].states_uts))


\* C19: in the fact output of clean_pca and clean_religion a row whose source
\* state code is missing holds no state key, and a row whose tru label did not
\* resolve in the tru file holds no tru id.
C19_NoFallbackKey ==
    run.script \in {"pca", "religion"} =>
       LET tru == files[IF run.script = "pca" THEN PCA_TRU_FILE ELSE REL_TRU_FILE].rows
       IN  \A i \in DOMAIN run.df :
              /\ IsNaN(run.df[i].state) => IsNaN(run.state[i])
              /\ (\A k \in DOMAIN tru : tru[k].name # run.df[i].tru)
                    => IsNaN(run.tru_id[i])


\* the regions the finished runs added
AddedRegions ==
    UNION {Range(run.proc[p].new_regions) : p \in {q \in RaceProcs : run.proc[q].pc = "saved"}}

\* one id stands for two labels: in regions.csv, or in what two runs added
DuplicateId ==
    \/ \E i, j \in DOMAIN files[HC_REGIONS_FILE].rows :
          /\ i # j
          /\ files[HC_REGIONS_FILE].rows[i].state = files[HC_REGIONS_FILE].rows[j].state
    \/ \E a, b \in AddedRegions : a.state = b.state /\ a.area_name # b.area_name

\* a region a finished run added is no row of regions.csv
LostRows == \E a \in AddedRegions : a \notin Range(files[HC_REGIONS_FILE].rows)

\* C20: an id given to two labels, or an added region missing from
\* regions.csv, occurs only when runs of clean_healthcare interleaved (one
\* read regions.csv while another had read it and not yet written); runs
\* executed one after another keep the ids unique and the rows in the file.
C20_SerialRunsUniqueIds == (DuplicateId \/ LostRows) => run.concurrent

\* C20's case: two interleaved runs gave the same id to different labels and
\* the rows one of them added are gone from the file
C20_RaceDuplicatesAndLoses == run.concurrent /\ DuplicateId /\ LostRows


\* largest state id of the rows plus 1, and 1 when there is no row
ExpectedNextId(rows) ==
    LET ids == {rows[i].state[1] : i \in {j \in DOMAIN rows : ~IsNaN(rows[j].state)}}
    IN  IF ids = {} THEN 1 ELSE (CHOOSE m \in ids : \A k \in ids : k <= m) + 1

\* the first row of df whose cleaned state name is display
FirstSeen(df, display) ==
    CHOOSE i \in DOMAIN df :
       /\ CleanStateOfCell(CellValue(df[i].states_uts)) = display
       /\ \A j \in 1..(i - 1) : CleanStateOfCell(CellValue(df[j].states_uts)) # display

\* C21: a run of clean_healthcare gives the regions it adds the ids
\* next_id, next_id + 1, ... where next_id is the largest state id of
\* regions.csv plus 1, or 1 when the file is absent or holds no row, in the
\* order their keys are first seen in the input rows.
C21_AllocationRule ==
    [][ (run'.seq = run.seq + 1 /\ run'.script = "healthcare")
        => LET added == run'.new_regions
               base  == ExpectedNextId(files[HC_REGIONS_FILE].rows)
           IN  /\ \A k \in DOMAIN added : added[k].state = Num(base + k - 1)
               /\ \A k, l \in DOMAIN added :
                     k < l => FirstSeen(run'.df, added[k].area_name)
                                 < FirstSeen(run'.df, added[l].area_name) ]_vars


\* C22: after a run of clean_healthcare or clean_religion, also one that
\* found tru.csv already written, every input row's area label is a row of
\* tru.csv and the row carries that id.
C22_TruReconcileComplete ==
    (run.script \in {"healthcare", "religion"} /\ run.status = "saved") =>
       \A i \in DOMAIN run.df :
          \E k \in DOMAIN files[HC_TRU_FILE].rows :
             /\ files[HC_TRU_FILE].rows[k].name = TruColumn[i]
             /\ run.tru_id[i] = Num(files[HC_TRU_FILE].rows[k].id)


\* C23: a function of an upload run that finds a dimension table present
\* issues no primary-key statement and no policy statement for that table.
C23_SetupOnlyAtCreation ==
    [][ up'.seq = up.seq =>
          \A t \in DimTables :
             db[t].exists =>
                \A i \in (Len(up.log) + 1)..Len(up'.log) :
                   ~(/\ up'.log[i].table = t
                     /\ up'.log[i].op \in {"pk", "rls", "drop_policy", "create_policy"}) ]_vars


\* a chunk upload of the load in the log was rejected
ChunkRejected ==
    \E i \in DOMAIN up.log :
       up.log[i].op \in {"replace", "append"} /\ ~up.log[i].ok

\* C24: after a fact load whose chunk uploads all went through, the fact
\* table exists and holds exactly the rows of the file, in their order, and
\* nothing of what it held before; also for a file without rows.
C24_FullReplace ==
    (up.pc \in {"DONE", "FAILED"} /\ ~ChunkRejected) =>
       /\ db["pca_stats"].exists
       /\ db["pca_stats"].rows = files[PCA_STATS_FILE].rows

\* C24's case: a second load, of a file without rows, went through
C24_EmptyDatasetLoaded ==
    /\ up.seq = MaxFactLoads /\ up.pc \in {"DONE", "FAILED"} /\ ~ChunkRejected
    /\ files[PCA_STATS_FILE].rows = <<>>
    /\ \E i \in DOMAIN up.log : up.log[i].op = "replace" /\ up.log[i].ok


\* C25: when a foreign-key statement of a fact table's block was rejected, the
\* table holds none of the block's foreign keys, and when a statement of
\* enable_rls was rejected, the table has neither row level security nor the
\* policy from that call.
C25_UnitsAllOrNothing ==
    \A i \in DOMAIN up.log :
       LET e == up.log[i]
       IN  ~e.ok =>
              /\ e.op = "fk" => db[e.table].fks = {}
              /\ e.op \in {"rls", "drop_policy", "create_policy"} =>
                    ~db[e.table].rls /\ ~db[e.table].policy

\* C25's case: the second foreign key of a block was rejected after the first
\* one had been accepted, and a policy statement was rejected after row level
\* security had been enabled
C25_LaterStatementRejected ==
    /\ \E i, j \in DOMAIN up.log :
          /\ i < j /\ up.log[i].table = up.log[j].table
          /\ up.log[i].op = "fk" /\ up.log[i].ok
          /\ up.log[j].op = "fk" /\ ~up.log[j].ok
    /\ \E i, j \in DOMAIN up.log :
          /\ i < j /\ up.log[i].table = up.log[j].table
          /\ up.log[i].op = "rls" /\ up.log[i].ok
          /\ up.log[j].op = "create_policy" /\ ~up.log[j].ok


\* the rows of pca_stats.csv in the chunks the load uploaded
UploadedRows ==
    LET n == Cardinality({i \in DOMAIN up.log :
                             up.log[i].op \in {"replace", "append"} /\ up.log[i].ok})
        rows == files[PCA_STATS_FILE].rows
    IN  SubSeq(rows, 1, IF n * ChunkSize < Len(rows) THEN n * ChunkSize ELSE Len(rows))

\* the load failed at a chunk after the first, or at a foreign key
LoadFailedMidway ==
    \E i \in DOMAIN up.log : up.log[i].op \in {"append", "fk"} /\ ~up.log[i].ok

\* C26: after a fact load that failed at a chunk after the first or at a
\* foreign key, the fact table holds the rows of the chunks uploaded in this
\* load and nothing else, and no foreign key.
C26_FailedLoadNotRestored ==
    (up.pc \in {"DONE", "FAILED"} /\ LoadFailedMidway) =>
       /\ db["pca_stats"].exists
       /\ db["pca_stats"].rows = UploadedRows
       /\ db["pca_stats"].fks = {}

\* C26's case: a second load stopped at a later chunk with part of the file uploaded
C26_SecondLoadStoppedAtChunk ==
    /\ up.seq = MaxFactLoads /\ up.pc \in {"DONE", "FAILED"}
    /\ \E i \in DOMAIN up.log : up.log[i].op = "append" /\ ~up.log[i].ok
    /\ db["pca_stats"].rows # <<>>
    /\ Len(db["pca_stats"].rows) < Len(files[PCA_STATS_FILE].rows)


\* the statements of the running invocation: none but the chunk uploads and
\* the foreign keys of a fact table, and the two SELECTs of a dimension merge,
\* occurs twice; a fact table gets no more chunk uploads than the file has
\* chunks and no more foreign-key statements than it has keys; a rejected
\* statement is not issued again
AttemptedOnce ==
    /\ \A i, j \in DOMAIN up.log :
          (i < j /\ up.log[i].op = up.log[j].op /\ up.log[i].table = up.log[j].table)
             => /\ up.log[i].ok
                /\ \/ up.log[i].table \in FactTables /\ up.log[i].op \in {"append", "fk"}
                   \/ up.log[i].op = "select"
    /\ \A t \in FactTables :
          /\ Cardinality({i \in DOMAIN up.log :
                             up.log[i].table = t /\ up.log[i].op \in {"replace", "append"}})
                <= Len(FactChunks(t))
          /\ Cardinality({i \in DOMAIN up.log : up.log[i].table = t /\ up.log[i].op = "fk"})
                <= Cardinality(FactKeys(t))
    /\ \A t \in DimTables :
          Cardinality({i \in DOMAIN up.log : up.log[i].table = t /\ up.log[i].op = "select"})
             <= 2

\* how far the invocation is: 0 at the liveness check, k in the k-th function
\* of the main block, and past the last function at its end
Position(u) ==
    IF u.pc = "CONNECT" THEN 0
    ELSE IF \E k \in DOMAIN MainBlock(u.script) : MainBlock(u.script)[k] = u.pc
         THEN CHOOSE k \in DOMAIN MainBlock(u.script) : MainBlock(u.script)[k] = u.pc
         ELSE Len(MainBlock(u.script)) + 1

\* a step taken while an invocation runs belongs to it and moves it forward
Advances ==
    up.pc \notin Rest =>
       /\ up'.seq = up.seq /\ up'.script = up.script
       /\ up'.pc \in {"CONNECT", "DONE", "FAILED"} \cup Range(MainBlock(up.script))
       /\ Position(up') > Position(up)

\* C27: in an invocation of an upload script every step is attempted at most
\* once and a failed step is not retried, and the invocation ends: each of
\* its steps moves it forward through the main block, whose end is DONE or
\* FAILED.
C27_AtMostOnceAndTerminates == []AttemptedOnce /\ [][Advances]_vars

\* C27's case: an invocation ended after one of its statements was rejected
C27_EndedAfterRejection ==
    /\ up.pc \in {"DONE", "FAILED"}
    /\ \E i \in DOMAIN up.log : up.log[i].op # "connect" /\ ~up.log[i].ok
    /\ \E i \in DOMAIN up.log : up.log[i].op = "append" /\ up.log[i].ok


\* the key process_data computes for a cell of the states column
KeyOfCell(c) == NormName(CleanStateOfCell(CellValue(c)))

\* the rows of regions.csv that stand for a key: those whose area_name has the
\* key as process_data computes it for a new name (lower case) or as it
\* computes it when it loads the file (cleaned again, then lower case)
RowsOfKey(rows, key) ==
    {r \in DOMAIN rows : \/ NormName(rows[r].area_name) = key
                         \/ RegionNormName(rows[r]) = key}

\* C28: when two different labels of a run of clean_healthcare have the same
\* key, regions.csv holds exactly one row for that key, and if the run added
\* it, its area_name is the cleaned form of the label that comes first in the
\* input.
C28_FirstVariantDisplayed ==
    run.script = "healthcare" =>
       \A i, j \in DOMAIN run.df :
          (/\ run.df[i].states_uts # run.df[j].states_uts
           /\ KeyOfCell(run.df[i].states_uts) = KeyOfCell(run.df[j].states_uts))
          => LET key   == KeyOfCell(run.df[i].states_uts)
                 rows  == files[HC_REGIONS_FILE].rows
                 first == CHOOSE k \in DOMAIN run.df :
                             /\ KeyOfCell(run.df[k].states_uts) = key
                             /\ \A l \in 1..(k - 1) : KeyOfCell(run.df[l].states_uts) # key
             IN  /\ Cardinality(RowsOfKey(rows, key)) = 1
                 /\ \A n \in DOMAIN run.new_regions :
                       NormName(run.new_regions[n].area_name) = key =>
                          run.new_regions[n].area_name
                             = CleanStateOfCell(CellValue(run.df[first].states_uts))



\* a source value that is text and not the text of a number
Unparsable(v) == v.kind = "str" /\ ~IsInteger(v.text) /\ ~IsDecimal(v.text)

\* the rows of the sheet that reach the fact file
FactSourceRows ==
    IF run.script = "occupation"
    THEN SelectSeq(run.df, LAMBDA r : ~IsNaN(r.key.state_code))
    ELSE run.df

\* C29: a run of clean_occupation or clean_population ends with its fact file
\* written, every measure cell of it is a whole number, and a source value
\* that is missing or unparsable has become 0.
C29_MeasuresWholeNumbers ==
    run.script \in {"occupation", "population"} =>
       /\ run.status = "saved"
       /\ Len(run.fact) = Len(FactSourceRows)
       /\ \A i \in DOMAIN run.fact : \A c \in DOMAIN run.fact[i] :
             /\ run.fact[i][c].kind = "int"
             /\ LET v == FactSourceRows[i].m[c]
                IN  (v.kind = "nan" \/ Unparsable(v)) => run.fact[i][c].num = 0


\* the columns of a fact file that refer to a dimension
IsKeyColumn(c) ==
    c \in {Col.state, Col.state_code, Col.tru_id, Col.religion_id, Col.age_group_id}

C31_ColumnNameBounded ==
    cPhase = "named" =>
       \A v \in DOMAIN cDisp :
          /\ Len(cDisp[v]) <= 60
          /\ \A i \in DOMAIN cDisp[v] :
                \/ \E k \in DOMAIN Lowers : Lowers[k] = cDisp[v][i]
                \/ cDisp[v][i] \in Digits
                \/ cDisp[v][i] = "_"

\* C31 witness: a header of more than 60 characters with capitals, spaces and
\* punctuation, cut to 60 characters by every variant
C31_LongHeaderCut ==
    /\ cPhase = "named" /\ cLabel.kind = "str"
    /\ Len(cLabel.text) > 60
    /\ \E i \in DOMAIN cLabel.text : cLabel.text[i] \in {" ", "(", "%", "/", "-", ","}
    /\ \E i \in DOMAIN cLabel.text : IsUpper(cLabel.text[i])
    /\ \A v \in DOMAIN cDisp : Len(cDisp[v]) = 60

====
